---- MODULE Spec2Model ----
(***************************************************************************)
(* miniupdate: the per-host automated update pass                          *)
(* (UpdateAutomator.process_host_automated_update) together with the       *)
(* collaborators it drives: the SSH shell, the package adapter, the        *)
(* Proxmox client (snapshot create / rollback / task polling) and the      *)
(* host availability prober.                                               *)
(*                                                                         *)
(* Spec          the host pass from its start to its report                *)
(* SpecCleanup   the end of a successful pass over any list of snapshots   *)
(* SpecDispatch  the thread pool of the check command                      *)
(* SpecApi       _api_request and authenticate of a client shared by       *)
(*               threads, statement by statement                           *)
(* SpecWait      wait_for_task with the time its requests take             *)
(* SpecProbe     wait_for_host_availability with the time its probes take  *)
(* SpecRender    the two bodies of the automated report e-mail             *)
(* SpecEndpoint  where a hypervisor request of a pass is sent              *)
(* SpecSsh       one SSHConnection through connect, execute_command and    *)
(*               disconnect                                                *)
(* SpecLoad      VMMapper._load_mappings over the entries of a file        *)
(* SpecParse     OSDetector._parse_os_info over the three signals          *)
(* SpecDetect    OSDetector._detect_package_manager                        *)
(* SpecMark      _mark_security_updates applied twice                      *)
(* SpecCheck     check_updates of every adapter over command results       *)
(* SpecInterval  the arguments of the availability wait                    *)
(* SpecReboot    reboot_host_via_ssh and the step that follows it          *)
(* SpecLive      the host pass, or one call of _api_request, under weak    *)
(*               fairness of the program's steps                           *)
(***************************************************************************)
EXTENDS Integers, Sequences, FiniteSets, TLC

(***************************************************************************)
(* Bounds of the model                                                     *)
(***************************************************************************)
\* longest list of updates check_updates returns in the model
MaxUpdates == 1
\* most hosts in the inventory handed to the dispatcher
NumHosts == 3
\* largest --parallel given to the dispatcher
MaxParallel == 2
\* most tickets the Proxmox server issues in one run of the model
MaxAuths == 3
\* longest time, in seconds, one request or probe takes in the model
MaxLatency == 2
\* largest `timeout` wait_for_task is called with in the model
MaxWaitTimeout == 5
\* largest `max_wait_time` wait_for_host_availability is called with in the
\* model
MaxProbeWait == 11
\* most host reports handed to the renderers of the e-mail
MaxReports == 2
\* package manager binaries found on a host
MaxExecutable == 2
\* updates in a list given to the security marker
MaxMarked == 2
\* lines in the output of a package listing command
MaxLines == 2
\* largest ping_interval of a configuration
MaxPingInterval == 8
\* calls of _api_request the interpreter lets nest before RecursionError
MaxRecursion == 3
\* calls made on one SSHConnection
MaxSshOps == 4

(***************************************************************************)
(* Program constants                                                       *)
(***************************************************************************)
\* update_automator.py:164  max_retries = 3
max_retries == 3
\* update_automator.py:171  time.sleep(5)
REFRESH_BACKOFF == 5
\* update_automator.py:334 / 363  wait_for_task(..., timeout=300)
TASK_TIMEOUT == 300
\* proxmox_client.py:226 / 230  time.sleep(2)
TASK_POLL_SLEEP == 2
\* update_automator.py:381  ping_timeout default
ping_timeout == 120
\* update_automator.py:416  check_interval=5
check_interval == 5

(***************************************************************************)
(* Values                                                                  *)
(***************************************************************************)
Hosts == {"web1", "db1"}
Packages == {"openssl", "bash"}

\* Optional[...] values: None is the empty set, a present value v is {v}
None == {}
Some(v) == {v}

\* UpdateResult (update_automator.py:26-36)
UpdateResult == {"SUCCESS", "OPT_OUT", "NO_UPDATES", "FAILED_SNAPSHOT",
                 "FAILED_UPDATES", "FAILED_REBOOT", "FAILED_AVAILABILITY",
                 "REVERTED", "REVERT_FAILED"}

\* manager_map of get_package_manager (package_managers.py:668-675)
manager_map == {"apt", "yum", "dnf", "zypper", "pacman", "pkg"}
\* the OSInfo.package_manager values the modelled hosts are probed as: one
\* kind with an adapter and the kinds without one
ProbedKinds == {"apt", "apk", "brew", "pkg_add", "unknown"}

\* sequences over S without repetition, of length at most n
RECURSIVE SeqsUpTo(_, _)
SeqsUpTo(S, n) ==
    IF n = 0 THEN {<<>>}
    ELSE LET shorter == SeqsUpTo(S, n - 1)
         IN shorter \cup {Append(s, x) : s \in {t \in shorter : Len(t) = n - 1},
                                        x \in S}

NoDup(s) == \A i, j \in 1..Len(s) : i # j => s[i] # s[j]
UpdateLists == {s \in SeqsUpTo(Packages, MaxUpdates) : NoDup(s)}

\* A snapshot name is modelled by its three parts: the text up to the length
\* of the prefix, the one character after it, and the rest, which is either a
\* time (a name ending in a well-formed YYYYMMDD-HHMMSS) or BadTimestamp.
\* Times are counted in days.
BadTimestamp == 0 - 1
\* update_config.get('snapshot_name_prefix', 'pre-update')
snapshot_name_prefix == "pre-update"
\* the name built by _create_snapshot: f"{prefix}-{timestamp}"
\* (update_automator.py:314-316)
SnapshotName(start) == [pre |-> snapshot_name_prefix, sep |-> "-", ts |-> start]
\* update_config.get('snapshot_retention_days', 7) (update_automator.py:448)
snapshot_retention_days == 7

VARIABLES
    config,         \* the loaded configuration (Config.update_config, proxmox)
    host,           \* the host submitted to the pass
    start_time,     \* datetime.now() at the start of the pass
    pc,             \* position in process_host_automated_update
    vm_mapping,     \* Optional[VMMapping]
    snapshot_name,  \* Optional[str]
    os_info,        \* Optional[OSInfo]
    attempt,        \* refresh loop counter
    updates,        \* list returned by check_updates
    revertSite,     \* which failure called _revert_snapshot
    elapsed,        \* time.time() - start_time of the running wait loop,
                    \* 0 when no wait loop runs
    slept,          \* seconds slept by the cache refresh loop
    reports,        \* the AutomatedUpdateReports returned
    calls,          \* the operations invoked by the pass, in order
    openShells,     \* connected SSHConnections of this pass
    ticket,         \* ProxmoxClient.ticket is set
    hvTask,         \* the hypervisor task last started: [kind, status]
    hvSnapshots,    \* names of snapshots of the VM on the hypervisor
    hvCreated       \* the hypervisor created the snapshot of this run

passVars == <<config, host, start_time, pc, vm_mapping, snapshot_name,
              os_info, attempt, updates, revertSite, elapsed, slept, reports,
              calls, openShells, ticket, hvTask, hvSnapshots, hvCreated>>

hvVars == <<ticket, hvTask, hvSnapshots, hvCreated>>
inputVars == <<config, host, start_time>>

\* the dispatcher of the check command (main.py:95-142)
VARIABLES
    hosts,          \* the inventory: hosts[i] is the i-th host
    parallel,       \* --parallel, max_workers of the pool
    mainPc,         \* position of the main thread
    submitted,      \* number of hosts handed to executor.submit
    workQueue,      \* submitted calls no worker has taken yet
    running,        \* hosts whose process_host is executing
    futures,        \* finished futures: host -> the report it holds
    checkReports    \* the list `reports` of the check command

dispatchVars == <<hosts, parallel, mainPc, submitted, workQueue, running,
                  futures, checkReports>>

\* the dispatcher when the model is about something else
DispatchIdle ==
    /\ hosts = <<>>
    /\ parallel = 1
    /\ mainPc = "done"
    /\ submitted = 0
    /\ workQueue = <<>>
    /\ running = {}
    /\ futures = <<>>
    /\ checkReports = <<>>

\* one ProxmoxClient used by the passes of several threads
\* (proxmox_client.py:67-139); a ticket and its CSRF token are named by the
\* number of the authentication that issued them, 0 for None
VARIABLES
    clientTicket,   \* self.ticket
    clientCsrf,     \* self.csrf_token
    sessionHeader,  \* session.headers["CSRFPreventionToken"]
    sessionCookie,  \* session.cookies["PVEAuthCookie"]
    issued,         \* number of tickets the server has issued
    valid,          \* the tickets the server still accepts
    apiPc,          \* position of each thread in _api_request
    apiData,        \* `data` of the authentication response, per thread
    apiFrom,        \* where the thread called authenticate from
    apiReauths,     \* re-authentications of the thread's call so far
    apiSent,        \* cookie and header of the thread's last request
    expiryAuths     \* re-authentications since the tickets last expired

apiVars == <<clientTicket, clientCsrf, sessionHeader, sessionCookie, issued,
             valid, apiPc, apiData, apiFrom, apiReauths, apiSent,
             expiryAuths>>

\* the threads that share the client
Threads == {"t1", "t2"}

\* the client when the model is about something else
ApiIdle ==
    /\ clientTicket = 0
    /\ clientCsrf = 0
    /\ sessionHeader = 0
    /\ sessionCookie = 0
    /\ issued = 0
    /\ valid = {}
    /\ apiPc = [t \in Threads |-> "unused"]
    /\ apiData = [t \in Threads |-> 0]
    /\ apiFrom = [t \in Threads |-> "entry"]
    /\ apiReauths = [t \in Threads |-> 0]
    /\ apiSent = [t \in Threads |-> <<0, 0>>]
    /\ expiryAuths = 0

\* one call of ProxmoxClient.wait_for_task with the time its requests take
\* (proxmox_client.py:206-233)
VARIABLES
    waitPc,         \* position in wait_for_task
    waitTimeout,    \* its argument `timeout`
    waitClock,      \* time.time() - start_time
    waitResult,     \* what it returned
    taskStatus,     \* the task on the server: running, or its exit status
    polls           \* the status polls made: when started, when answered,
                    \* and the answer

waitVars == <<waitPc, waitTimeout, waitClock, waitResult, taskStatus, polls>>

\* wait_for_task when the model is about something else
WaitIdle ==
    /\ waitPc = "returned"
    /\ waitTimeout = 1
    /\ waitClock = 0
    /\ waitResult = "none"
    /\ taskStatus = "running"
    /\ polls = <<>>

\* one call of HostChecker.wait_for_host_availability with the time its
\* probes take (host_checker.py:48-118)
VARIABLES
    probePc,        \* position in wait_for_host_availability
    max_wait_time,  \* its argument
    use_ssh,        \* its argument
    probeClock,     \* time.time() - start_time
    probeResult,    \* how the call ended
    probeShell,     \* _check_ssh_connectivity holds an SSH connection
    cycles          \* the polling cycles: when started, and how the ping,
                    \* the SSH connect and `echo test` ended

probeVars == <<probePc, max_wait_time, use_ssh, probeClock, probeResult,
               probeShell, cycles>>

\* wait_for_host_availability when the model is about something else
ProbeIdle ==
    /\ probePc = "returned"
    /\ max_wait_time = 1
    /\ use_ssh = TRUE
    /\ probeClock = 0
    /\ probeResult = "none"
    /\ probeShell = FALSE
    /\ cycles = <<>>

\* one function of the program studied by itself
VARIABLES
    fnArgs,         \* the arguments it is called with
    fnResult,       \* what it returned, None before the call
    fnCalls         \* how many times it was applied

fnVars == <<fnArgs, fnResult, fnCalls>>

\* no function is studied by itself
FnIdle ==
    /\ fnArgs = <<>>
    /\ fnResult = None
    /\ fnCalls = 0

\* one SSHConnection (ssh_manager.py:18-139)
VARIABLES
    client,         \* self.client: None or the paramiko client
    connected,      \* self.connected
    sshLog          \* the calls made on the connection, with what they did

sshVars == <<client, connected, sshLog>>

\* no connection is studied by itself
SshIdle ==
    /\ client = None
    /\ connected = FALSE
    /\ sshLog = <<>>

\* what the steps of the host pass leave alone besides their inputs
otherVars == <<dispatchVars, apiVars, waitVars, probeVars, fnVars, sshVars>>
\* what the steps of the dispatcher leave alone
besidesDispatch == <<passVars, apiVars, waitVars, probeVars, fnVars, sshVars>>
\* what the steps of the client leave alone
besidesApi == <<passVars, dispatchVars, waitVars, probeVars, fnVars, sshVars>>
\* what the steps of wait_for_task leave alone
besidesWait == <<passVars, dispatchVars, apiVars, probeVars, fnVars, sshVars>>
\* what the steps of wait_for_host_availability leave alone
besidesProbe == <<passVars, dispatchVars, apiVars, waitVars, fnVars, sshVars>>
\* what the call of a function studied by itself leaves alone
besidesFn == <<passVars, dispatchVars, apiVars, waitVars, probeVars, sshVars>>
\* what the steps of an SSHConnection leave alone
besidesSsh == <<passVars, dispatchVars, apiVars, waitVars, probeVars, fnVars>>

vars == <<passVars, otherVars>>

(***************************************************************************)
(* Records built by the pass                                               *)
(***************************************************************************)
\* an entry of the call log: the operation, how it ended ("call" when it
\* was entered and has not ended yet) and the snapshot it was about
EvA(op, res, arg) == [op |-> op, res |-> res, arg |-> arg]
Ev(op, res) == EvA(op, res, None)

\* UpdateReport(host, os_info, updates, error=None) (email_sender.py:29-42)
UpdateReport(osi, upd, error) ==
    [host |-> host, os_info |-> osi, updates |-> upd, error |-> error,
     command_output |-> "None"]

\* AutomatedUpdateReport(...) (update_automator.py:39-48); error_details is
\* the tuple of the parts the message is put together from, <<>> for None
AutomatedUpdateReport(ur, result, snap, err) ==
    [host |-> host, vm_mapping |-> vm_mapping, update_report |-> ur,
     result |-> result, snapshot_name |-> snap, error_details |-> err]

\* VMMapper.get_vm_info (vm_mapping.py:128-130)
get_vm_info(h) ==
    IF h \in config.mappings
    THEN Some([node |-> "pve", vmid |-> 100, host_name |-> h])
    ELSE None

\* Return with the shell of the pass left connected
Return_keepShell(r) ==
    /\ reports' = Append(reports, r)
    /\ UNCHANGED openShells
    /\ pc' = "done"

\* a `return AutomatedUpdateReport(...)` inside `with SSHManager(...)`:
\* SSHManager.__exit__ disconnects the shell of the pass, then the report is
\* handed to the caller (ssh_manager.py:240-252)
Return(r) ==
    /\ reports' = Append(reports, r)
    /\ openShells' = openShells \ {"main"}
    /\ pc' = "done"

(***************************************************************************)
(* Initial state: a configuration, a host, a hypervisor                    *)
(***************************************************************************)
\* update_config.get('apply_updates', False) with the default True
apply_updates_defaultTrue(table) ==
    IF \E t \in table : t.apply_updates # None
    THEN \E t \in table : \E a \in t.apply_updates : a
    ELSE TRUE

\* self.update_config.get('apply_updates', False) over the [updates] table
\* of the configuration file, {} for a file without the table
\* (config.py:115-120, update_automator.py:193)
apply_updates_setting(table) ==
    IF \E t \in table : t.apply_updates # None
    THEN \E t \in table : \E a \in t.apply_updates : a
    ELSE FALSE

\* the [updates] table of a configuration file: absent, or present with the
\* key apply_updates absent or set
UpdatesTables ==
    {None} \cup {Some([apply_updates |-> a]) :
                    a \in {None, Some(TRUE), Some(FALSE)}}

Configs ==
    {c \in [apply_updates : {apply_updates_setting(t) : t \in UpdatesTables},
            reboot_after_updates : BOOLEAN,
            cleanup_snapshots : BOOLEAN, proxmox : BOOLEAN,
            opt_out_hosts : {{}, {"db1"}}, mappings : {{}, Hosts}] :
        \* the VM mapper exists only with a Proxmox client
        \* (update_automator.py:67-91)
        ~c.proxmox => c.mappings = {}}

\* snapshots left on the VM by earlier runs and by the operator
PriorSnapshots ==
    {[pre |-> snapshot_name_prefix, sep |-> "-", ts |-> 1],
     [pre |-> "manual-snap", sep |-> "-", ts |-> 1]}

Init ==
    /\ config \in Configs
    /\ host \in Hosts
    /\ start_time = 10
    /\ pc = "start"
    /\ vm_mapping = None
    /\ snapshot_name = None
    /\ os_info = None
    /\ attempt = 1
    /\ updates = <<>>
    /\ revertSite = "none"
    /\ elapsed = 0
    /\ slept = 0
    /\ reports = <<>>
    /\ calls = <<>>
    /\ openShells = {}
    /\ ticket = FALSE
    /\ hvTask = [kind |-> "none", status |-> "none"]
    /\ hvSnapshots = (IF config.proxmox THEN PriorSnapshots ELSE {})
    /\ hvCreated = FALSE
    /\ DispatchIdle
    /\ ApiIdle
    /\ WaitIdle
    /\ ProbeIdle
    /\ FnIdle
    /\ SshIdle

\* the host pass when the model is about something else: no pass was
\* started
PassIdle ==
    /\ config = [apply_updates |-> FALSE, reboot_after_updates |-> FALSE,
                 cleanup_snapshots |-> FALSE, proxmox |-> FALSE,
                 opt_out_hosts |-> {}, mappings |-> {}]
    /\ host = "web1"
    /\ start_time = 10
    /\ pc = "done"
    /\ vm_mapping = None
    /\ snapshot_name = None
    /\ os_info = None
    /\ attempt = 1
    /\ updates = <<>>
    /\ revertSite = "none"
    /\ elapsed = 0
    /\ slept = 0
    /\ reports = <<>>
    /\ calls = <<>>
    /\ openShells = {}
    /\ ticket = FALSE
    /\ hvTask = [kind |-> "none", status |-> "none"]
    /\ hvSnapshots = {}
    /\ hvCreated = FALSE

\* everything but the function studied by itself is idle
FnAlone ==
    /\ PassIdle
    /\ DispatchIdle
    /\ ApiIdle
    /\ WaitIdle
    /\ ProbeIdle
    /\ SshIdle

(***************************************************************************)
(* process_host_automated_update, up to the decision                       *)
(***************************************************************************)
\* update_automator.py:111-115
GetVMInfo ==
    /\ pc = "start"
    /\ vm_mapping' = (IF config.proxmox THEN get_vm_info(host) ELSE None)
    /\ pc' = "connect"
    /\ UNCHANGED <<inputVars, otherVars, hvVars, snapshot_name, os_info, attempt, updates,
                   revertSite, elapsed, slept, reports, calls, openShells>>

\* update_automator.py:118-130
ConnectToHost ==
    /\ pc = "connect"
    /\ \E ok \in BOOLEAN :
        /\ calls' = Append(calls, Ev("connect", IF ok THEN "ok" ELSE "fail"))
        /\ IF ok
           THEN /\ openShells' = openShells \cup {"main"}
                /\ pc' = "detect_os"
                /\ UNCHANGED reports
           ELSE Return(AutomatedUpdateReport(
                    UpdateReport(None, <<>>, "Failed to connect via SSH"),
                    "FAILED_UPDATES", None, <<"SSH connection failed">>))
    /\ UNCHANGED <<inputVars, otherVars, hvVars, vm_mapping, snapshot_name, os_info,
                   attempt, updates, revertSite, elapsed, slept>>

\* update_automator.py:133-146
DetectOS ==
    /\ pc = "detect_os"
    /\ \E osi \in {None} \cup {Some([package_manager |-> k]) :
                                 k \in ProbedKinds} :
        /\ os_info' = osi
        /\ calls' = Append(calls, Ev("detect_os",
                                     IF osi = None THEN "fail" ELSE "ok"))
        /\ IF osi # None
           THEN /\ pc' = "get_package_manager"
                /\ UNCHANGED <<reports, openShells>>
           ELSE Return(AutomatedUpdateReport(
                    UpdateReport(None, <<>>, "Failed to detect OS"),
                    "FAILED_UPDATES", None, <<"OS detection failed">>))
    /\ UNCHANGED <<inputVars, otherVars, hvVars, vm_mapping, snapshot_name, attempt,
                   updates, revertSite, elapsed, slept>>

\* get_package_manager that builds an adapter for every kind
get_package_manager_anyKind(osi) ==
    IF osi # None THEN (CHOOSE o \in osi : TRUE).package_manager ELSE "None"

\* get_package_manager (package_managers.py:666-682)
get_package_manager(osi) ==
    IF \E o \in osi : o.package_manager \in manager_map
    THEN (CHOOSE o \in osi : TRUE).package_manager
    ELSE "None"

\* update_automator.py:148-160
GetPackageManager ==
    /\ pc = "get_package_manager"
    /\ IF get_package_manager(os_info) # "None"
       THEN /\ pc' = "refresh_cache"
            /\ UNCHANGED <<reports, openShells>>
       ELSE Return(AutomatedUpdateReport(
                UpdateReport(os_info, <<>>, "Unsupported package manager"),
                "FAILED_UPDATES", None, <<"Unsupported package manager">>))
    /\ UNCHANGED <<inputVars, otherVars, hvVars, vm_mapping, snapshot_name, os_info,
                   attempt, updates, revertSite, elapsed, slept, calls>>

\* RefreshCache with the loop bound off by one
RefreshCache_offByOne ==
    /\ pc = "refresh_cache"
    /\ \E ok \in BOOLEAN :
        /\ calls' = Append(calls, Ev("refresh_cache",
                                     IF ok THEN "ok" ELSE "fail"))
        /\ IF ok
           THEN /\ pc' = "check_updates"
                /\ UNCHANGED <<attempt, slept, reports, openShells>>
           ELSE IF attempt <= max_retries
           THEN /\ slept' = slept + REFRESH_BACKOFF
                /\ attempt' = attempt + 1
                /\ UNCHANGED <<pc, reports, openShells>>
           ELSE /\ Return(AutomatedUpdateReport(
                        UpdateReport(os_info, <<>>,
                                     "Failed to refresh package cache"),
                        "FAILED_UPDATES", None,
                        <<"Failed to refresh package cache">>))
                /\ UNCHANGED <<attempt, slept>>
    /\ UNCHANGED <<inputVars, otherVars, hvVars, vm_mapping, snapshot_name, os_info,
                   updates, revertSite, elapsed>>

\* one iteration of the refresh loop (update_automator.py:164-184)
RefreshCache ==
    /\ pc = "refresh_cache"
    /\ \E ok \in BOOLEAN :
        /\ calls' = Append(calls, Ev("refresh_cache",
                                     IF ok THEN "ok" ELSE "fail"))
        /\ IF ok
           THEN /\ pc' = "check_updates"
                /\ UNCHANGED <<attempt, slept, reports, openShells>>
           ELSE IF attempt < max_retries
           THEN /\ slept' = slept + REFRESH_BACKOFF
                /\ attempt' = attempt + 1
                /\ UNCHANGED <<pc, reports, openShells>>
           ELSE /\ Return(AutomatedUpdateReport(
                        UpdateReport(os_info, <<>>,
                                     "Failed to refresh package cache"),
                        "FAILED_UPDATES", None,
                        <<"Failed to refresh package cache">>))
                /\ UNCHANGED <<attempt, slept>>
    /\ UNCHANGED <<inputVars, otherVars, hvVars, vm_mapping, snapshot_name, os_info,
                   updates, revertSite, elapsed>>

\* update_automator.py:185-186
CheckUpdates ==
    /\ pc = "check_updates"
    /\ \E u \in UpdateLists :
        /\ updates' = u
        /\ calls' = Append(calls, Ev("check_updates", "ok"))
    /\ pc' = "decide"
    /\ UNCHANGED <<inputVars, otherVars, hvVars, vm_mapping, snapshot_name, os_info,
                   attempt, revertSite, elapsed, slept, reports, openShells>>

\* IsOptOut without the test of apply_updates
IsOptOut_listOnly ==
    host \in config.opt_out_hosts

\* the opt-out test (update_automator.py:189-193)
IsOptOut ==
    host \in config.opt_out_hosts \/ ~config.apply_updates

\* SnapshotWanted without the test of the VM mapping
SnapshotWanted_noMapping == config.proxmox

\* "Create snapshot if Proxmox is configured and VM mapping exists"
\* (update_automator.py:229)
SnapshotWanted == config.proxmox /\ vm_mapping # None

\* Decide with the opt-out report built without the list of updates
Decide_emptyReport ==
    /\ pc = "decide"
    /\ IF IsOptOut
       THEN Return(AutomatedUpdateReport(UpdateReport(os_info, <<>>, "None"),
                                         "OPT_OUT", None, <<>>))
       ELSE IF updates = <<>>
       THEN Return(AutomatedUpdateReport(UpdateReport(os_info, updates, "None"),
                                         "NO_UPDATES", None, <<>>))
       ELSE /\ pc' = (IF SnapshotWanted THEN "snapshot_authenticate"
                      ELSE "apply_updates")
            /\ UNCHANGED <<reports, openShells>>
    /\ UNCHANGED <<inputVars, otherVars, hvVars, vm_mapping, snapshot_name, os_info,
                   attempt, updates, revertSite, elapsed, slept, calls>>

\* update_automator.py:188-229
Decide ==
    /\ pc = "decide"
    /\ IF IsOptOut
       THEN Return(AutomatedUpdateReport(UpdateReport(os_info, updates, "None"),
                                         "OPT_OUT", None, <<>>))
       ELSE IF updates = <<>>
       THEN Return(AutomatedUpdateReport(UpdateReport(os_info, updates, "None"),
                                         "NO_UPDATES", None, <<>>))
       ELSE /\ pc' = (IF SnapshotWanted THEN "snapshot_authenticate"
                      ELSE "apply_updates")
            /\ UNCHANGED <<reports, openShells>>
    /\ UNCHANGED <<inputVars, otherVars, hvVars, vm_mapping, snapshot_name, os_info,
                   attempt, updates, revertSite, elapsed, slept, calls>>

(***************************************************************************)
(* The Proxmox client                                                      *)
(***************************************************************************)
\* How one call of ProxmoxClient._api_request ends (proxmox_client.py:97-139):
\* "ok" a 200/201 response, "error" any other response or a transport error,
\* "auth_failed" a failed (re-)authentication.
ApiOutcomes == {"ok", "error", "auth_failed"}

\* self.ticket after the call: cleared by a failed (re-)authentication and
\* set by every other way through _api_request (proxmox_client.py:101-129)
TicketAfter(out) == out # "auth_failed"

\* the hypervisor finishes the task it was given
\* (status 'stopped' and its exitstatus, proxmox_client.py:216-223)
HvTaskFinish ==
    /\ hvTask.status = "running"
    /\ \E st \in {"OK", "failed"} :
        /\ hvTask' = [hvTask EXCEPT !.status = st]
        /\ IF hvTask.kind = "snapshot" /\ st = "OK"
           THEN /\ hvSnapshots' = hvSnapshots \cup {SnapshotName(start_time)}
                /\ hvCreated' = TRUE
           ELSE UNCHANGED <<hvSnapshots, hvCreated>>
    /\ UNCHANGED <<inputVars, otherVars, pc, vm_mapping, snapshot_name, os_info, attempt,
                   updates, revertSite, elapsed, slept, reports, calls,
                   openShells, ticket>>

(***************************************************************************)
(* Snapshot, apply, rollback                                               *)
(***************************************************************************)
\* _create_snapshot returned the name (update_automator.py:335-336, 342-343)
\* and the pass goes on to apply (update_automator.py:230-231, 243)
SnapshotCreated(log) ==
    /\ snapshot_name' = Some(SnapshotName(start_time))
    /\ calls' = Append(log, EvA("_create_snapshot", "ok",
                                 Some(SnapshotName(start_time))))
    /\ pc' = "apply_updates"
    /\ UNCHANGED <<reports, openShells>>

\* SnapshotFailed without the return: the pass goes on to apply
SnapshotFailed_continue(log) ==
    /\ snapshot_name' = None
    /\ calls' = Append(log, Ev("_create_snapshot", "fail"))
    /\ pc' = "apply_updates"
    /\ UNCHANGED <<reports, openShells>>

\* SnapshotFailed with the name of the snapshot put in the report
SnapshotFailed_named(log) ==
    /\ snapshot_name' = None
    /\ calls' = Append(log, Ev("_create_snapshot", "fail"))
    /\ Return(AutomatedUpdateReport(UpdateReport(os_info, updates, "None"),
                                    "FAILED_SNAPSHOT",
                                    Some(SnapshotName(start_time)),
                                    <<"Failed to create VM snapshot">>))

\* _create_snapshot returned None (update_automator.py:321, 339, 347) and the
\* pass ends with FAILED_SNAPSHOT (update_automator.py:231-241)
SnapshotFailed(log) ==
    /\ snapshot_name' = None
    /\ calls' = Append(log, Ev("_create_snapshot", "fail"))
    /\ Return(AutomatedUpdateReport(UpdateReport(os_info, updates, "None"),
                                    "FAILED_SNAPSHOT", None,
                                    <<"Failed to create VM snapshot">>))

\* _create_snapshot: authenticate (update_automator.py:312-321)
SnapshotAuthenticate ==
    /\ pc = "snapshot_authenticate"
    /\ \E ok \in BOOLEAN :
        IF ok
        THEN /\ ticket' = TRUE
             /\ calls' = Append(calls, Ev("_create_snapshot", "call"))
             /\ pc' = "snapshot_create"
             /\ UNCHANGED <<snapshot_name, reports, openShells>>
        ELSE /\ UNCHANGED ticket
             /\ SnapshotFailed(Append(calls, Ev("_create_snapshot", "call")))
    /\ UNCHANGED <<inputVars, otherVars, vm_mapping, os_info, attempt, updates, revertSite,
                   elapsed, slept, hvTask, hvSnapshots, hvCreated>>

\* _create_snapshot: the create request (update_automator.py:323-347)
SnapshotCreate ==
    /\ pc = "snapshot_create"
    /\ \E out \in ApiOutcomes, upid \in BOOLEAN :
        /\ ticket' = TicketAfter(out)
        /\ IF out # "ok"
           THEN /\ SnapshotFailed(calls)
                /\ UNCHANGED <<elapsed, hvTask, hvSnapshots, hvCreated>>
           ELSE IF upid
           THEN /\ hvTask' = [kind |-> "snapshot", status |-> "running"]
                /\ elapsed' = 0
                /\ pc' = "snapshot_wait"
                /\ UNCHANGED <<snapshot_name, calls, reports, openShells,
                               hvSnapshots, hvCreated>>
           ELSE \* "Some versions might complete immediately"
                /\ hvSnapshots' = hvSnapshots \cup {SnapshotName(start_time)}
                /\ hvCreated' = TRUE
                /\ SnapshotCreated(calls)
                /\ UNCHANGED <<elapsed, hvTask>>
    /\ UNCHANGED <<inputVars, otherVars, vm_mapping, os_info, attempt, updates, revertSite,
                   slept>>

\* the update report and the messages of a failure after apply started
\* (update_automator.py:246, 262; 386, 402; 418, 434)
SiteUpdateReport(site) ==
    IF site = "apply" THEN UpdateReport(os_info, updates, "None")
    ELSE UpdateReport(None, <<>>, "None")

SiteError(site) ==
    CASE site = "apply" -> "Failed to apply package updates"
      [] site = "reboot" -> "Failed to send reboot command"
      [] OTHER -> "Host did not become available after reboot"

SiteResult(site) ==
    CASE site = "apply" -> "FAILED_UPDATES"
      [] site = "reboot" -> "FAILED_REBOOT"
      [] OTHER -> "FAILED_AVAILABILITY"

\* "Revert snapshot if available" (update_automator.py:249, 389, 421)
RevertAvailable == snapshot_name # None /\ config.proxmox /\ vm_mapping # None

\* the failure branches (update_automator.py:246-268, 386-408, 418-440):
\* start the rollback when a snapshot is available, else report the failure
HandleFailure(site, log) ==
    IF RevertAvailable
    THEN /\ revertSite' = site
         /\ calls' = Append(log, EvA("_revert_snapshot", "call", snapshot_name))
         /\ pc' = "revert_request"
         /\ UNCHANGED <<reports, openShells>>
    ELSE /\ calls' = log
         /\ Return(AutomatedUpdateReport(SiteUpdateReport(site),
                                         SiteResult(site), snapshot_name,
                                         <<SiteError(site)>>))
         /\ UNCHANGED revertSite

\* RevertReturned with the two results exchanged
RevertReturned_swapped(ok, log) ==
    /\ calls' = Append(log, EvA("_revert_snapshot",
                                 IF ok THEN "ok" ELSE "fail", snapshot_name))
    /\ Return(AutomatedUpdateReport(
            SiteUpdateReport(revertSite),
            IF ok THEN "REVERT_FAILED" ELSE "REVERTED",
            snapshot_name,
            <<SiteError(revertSite),
              IF ok THEN "reverted to snapshot"
              ELSE "CRITICAL: snapshot revert also failed">>))

\* _revert_snapshot returned (update_automator.py:365, 368, 371, 375) and the
\* failure branch returns its report (update_automator.py:250-268, 390-408,
\* 422-440)
RevertReturned(ok, log) ==
    /\ calls' = Append(log, EvA("_revert_snapshot",
                                 IF ok THEN "ok" ELSE "fail", snapshot_name))
    /\ Return(AutomatedUpdateReport(
            SiteUpdateReport(revertSite),
            IF ok THEN "REVERTED" ELSE "REVERT_FAILED",
            snapshot_name,
            <<SiteError(revertSite),
              IF ok THEN "reverted to snapshot"
              ELSE "CRITICAL: snapshot revert also failed">>))

\* the adapter's apply_updates: refresh the cache, then run the upgrade
\* command (package_managers.py:139-162, and the same in every adapter)
ApplyOutcomes == {"refresh_failed", "command_failed", "ok"}

apply_updates(out) ==
    <<Ev("apply_updates", "call"),
      Ev("refresh_cache", IF out = "refresh_failed" THEN "fail" ELSE "ok"),
      Ev("apply_updates", IF out = "ok" THEN "ok" ELSE "fail")>>

\* ApplyUpdates going on to the reboot whatever reboot_after_updates says
ApplyUpdates_rebootAlways ==
    /\ pc = "apply_updates"
    /\ \E out \in ApplyOutcomes :
        IF out = "ok"
        THEN /\ calls' = calls \o apply_updates(out)
             /\ pc' = "reboot_connect"
             /\ UNCHANGED <<revertSite, reports, openShells>>
        ELSE HandleFailure("apply", calls \o apply_updates(out))
    /\ UNCHANGED <<inputVars, otherVars, hvVars, vm_mapping, snapshot_name, os_info,
                   attempt, updates, elapsed, slept>>

\* update_automator.py:243-281
ApplyUpdates ==
    /\ pc = "apply_updates"
    /\ \E out \in ApplyOutcomes :
        IF out = "ok"
        THEN /\ calls' = calls \o apply_updates(out)
             /\ pc' = (IF config.reboot_after_updates THEN "reboot_connect"
                       ELSE "cleanup")
             /\ UNCHANGED <<revertSite, reports, openShells>>
        ELSE HandleFailure("apply", calls \o apply_updates(out))
    /\ UNCHANGED <<inputVars, otherVars, hvVars, vm_mapping, snapshot_name, os_info,
                   attempt, updates, elapsed, slept>>

\* _revert_snapshot: the rollback request (update_automator.py:349-375)
RevertRequest ==
    /\ pc = "revert_request"
    /\ \E out \in ApiOutcomes, upid \in BOOLEAN :
        /\ ticket' = TicketAfter(out)
        /\ IF out # "ok"
           THEN /\ RevertReturned(FALSE, calls)
                /\ UNCHANGED <<elapsed, hvTask>>
           ELSE IF upid
           THEN /\ hvTask' = [kind |-> "rollback", status |-> "running"]
                /\ elapsed' = 0
                /\ pc' = "revert_wait"
                /\ UNCHANGED <<calls, reports, openShells>>
           ELSE /\ RevertReturned(TRUE, calls)
                /\ UNCHANGED <<elapsed, hvTask>>
    /\ UNCHANGED <<inputVars, otherVars, vm_mapping, snapshot_name, os_info, attempt,
                   updates, revertSite, slept, hvSnapshots, hvCreated>>

\* wait_for_task returned to _create_snapshot or to _revert_snapshot
\* (update_automator.py:334-339, 363-368)
WaitReturned(ok) ==
    IF pc = "snapshot_wait"
    THEN IF ok THEN SnapshotCreated(calls) ELSE SnapshotFailed(calls)
    ELSE RevertReturned(ok, calls) /\ UNCHANGED snapshot_name

\* wait_for_task: one poll of the task status (proxmox_client.py:211-230)
WaitForTaskPoll ==
    /\ pc \in {"snapshot_wait", "revert_wait"}
    /\ elapsed < TASK_TIMEOUT
    /\ \E out \in ApiOutcomes :
        /\ ticket' = TicketAfter(out)
        /\ IF out = "ok" /\ hvTask.status = "OK"
           THEN WaitReturned(TRUE) /\ elapsed' = 0
           ELSE IF out = "ok" /\ hvTask.status = "failed"
           THEN WaitReturned(FALSE) /\ elapsed' = 0
           ELSE /\ elapsed' = elapsed + TASK_POLL_SLEEP
                /\ UNCHANGED <<pc, snapshot_name, calls, reports, openShells>>
    /\ UNCHANGED <<inputVars, otherVars, vm_mapping, os_info, attempt, updates, revertSite,
                   slept, hvTask, hvSnapshots, hvCreated>>

\* WaitForTaskTimeout with the timeout reported as success
WaitForTaskTimeout_true ==
    /\ pc \in {"snapshot_wait", "revert_wait"}
    /\ elapsed >= TASK_TIMEOUT
    /\ WaitReturned(TRUE)
    /\ elapsed' = 0
    /\ UNCHANGED <<inputVars, otherVars, hvVars, vm_mapping, os_info, attempt, updates,
                   revertSite, slept>>

\* wait_for_task: the timeout elapsed (proxmox_client.py:211, 232-233)
WaitForTaskTimeout ==
    /\ pc \in {"snapshot_wait", "revert_wait"}
    /\ elapsed >= TASK_TIMEOUT
    /\ WaitReturned(FALSE)
    /\ elapsed' = 0
    /\ UNCHANGED <<inputVars, otherVars, hvVars, vm_mapping, os_info, attempt, updates,
                   revertSite, slept>>

(***************************************************************************)
(* Reboot and verification (_handle_reboot_and_verification)               *)
(***************************************************************************)
\* reboot_host_via_ssh: open the reboot shell (host_checker.py:131-136);
\* a failed connect makes it return False (update_automator.py:385-408)
RebootConnect ==
    /\ pc = "reboot_connect"
    /\ \E ok \in BOOLEAN :
        IF ok
        THEN /\ openShells' = openShells \cup {"reboot"}
             /\ pc' = "reboot_send"
             /\ UNCHANGED <<calls, reports, revertSite>>
        ELSE HandleFailure("reboot",
                           Append(calls, Ev("reboot_host_via_ssh", "fail")))
    /\ UNCHANGED <<inputVars, otherVars, hvVars, vm_mapping, snapshot_name, os_info,
                   attempt, updates, elapsed, slept>>

\* reboot_host_via_ssh: send the command, whatever it returns, and close the
\* shell (host_checker.py:138-148); then time.sleep(10)
\* (update_automator.py:410-412)
RebootSend ==
    /\ pc = "reboot_send"
    /\ openShells' = openShells \ {"reboot"}
    /\ calls' = Append(calls, Ev("reboot_host_via_ssh", "ok"))
    /\ elapsed' = 0
    /\ pc' = "wait_availability"
    /\ UNCHANGED <<inputVars, otherVars, hvVars, vm_mapping, snapshot_name, os_info,
                   attempt, updates, revertSite, slept, reports>>

\* wait_for_host_availability: one cycle starts with a ping
\* (host_checker.py:67-77); ping_host lets an OSError of subprocess.run
\* through (host_checker.py:40-46), which ends the pass in the handler of
\* update_automator.py:299
AvailabilityPing ==
    /\ pc = "wait_availability"
    /\ elapsed < ping_timeout
    /\ \E ping \in {"ok", "fail", "raise"} :
        CASE ping = "ok" ->
                /\ pc' = "check_ssh_connect"
                /\ UNCHANGED <<elapsed, calls, openShells>>
          [] ping = "fail" ->
                /\ elapsed' = elapsed + check_interval
                /\ UNCHANGED <<pc, calls, openShells>>
          [] OTHER ->
                /\ calls' = Append(calls,
                                   Ev("wait_for_host_availability", "raise"))
                /\ openShells' = openShells \ {"main"}
                /\ pc' = "exception"
                /\ elapsed' = 0
    /\ UNCHANGED <<inputVars, otherVars, hvVars, vm_mapping, snapshot_name, os_info,
                   attempt, updates, revertSite, slept, reports>>

\* _check_ssh_connectivity: connect (host_checker.py:108-111, 115)
CheckSshConnect ==
    /\ pc = "check_ssh_connect"
    /\ \E ok \in BOOLEAN :
        IF ok
        THEN /\ openShells' = openShells \cup {"probe"}
             /\ pc' = "check_ssh_echo"
             /\ UNCHANGED elapsed
        ELSE /\ elapsed' = elapsed + check_interval
             /\ pc' = "wait_availability"
             /\ UNCHANGED openShells
    /\ UNCHANGED <<inputVars, otherVars, hvVars, vm_mapping, snapshot_name, os_info,
                   attempt, updates, revertSite, slept, reports, calls>>

\* _check_ssh_connectivity: `echo test` and the close of the probe shell
\* (host_checker.py:113-114); exit code 0 makes wait_for_host_availability
\* return True (host_checker.py:83-85), anything else sleeps (host_checker.py:92)
CheckSshEcho ==
    /\ pc = "check_ssh_echo"
    /\ openShells' = openShells \ {"probe"}
    /\ \E ok \in BOOLEAN :
        IF ok
        THEN /\ calls' = Append(calls, Ev("wait_for_host_availability", "ok"))
             /\ pc' = "cleanup"
             /\ elapsed' = 0
        ELSE /\ elapsed' = elapsed + check_interval
             /\ pc' = "wait_availability"
             /\ UNCHANGED calls
    /\ UNCHANGED <<inputVars, otherVars, hvVars, vm_mapping, snapshot_name, os_info,
                   attempt, updates, revertSite, slept, reports>>

\* AvailabilityTimeout with the result of wait_for_host_availability ignored
AvailabilityTimeout_ignored ==
    /\ pc = "wait_availability"
    /\ elapsed >= ping_timeout
    /\ calls' = Append(calls, Ev("wait_for_host_availability", "fail"))
    /\ pc' = "cleanup"
    /\ elapsed' = 0
    /\ UNCHANGED <<inputVars, otherVars, hvVars, vm_mapping, snapshot_name, os_info,
                   attempt, updates, slept, revertSite, reports, openShells>>

\* wait_for_host_availability gave up (host_checker.py:67, 94-96) and the
\* failure branch runs (update_automator.py:415-440)
AvailabilityTimeout ==
    /\ pc = "wait_availability"
    /\ elapsed >= ping_timeout
    /\ HandleFailure("availability",
                     Append(calls, Ev("wait_for_host_availability", "fail")))
    /\ elapsed' = 0
    /\ UNCHANGED <<inputVars, otherVars, hvVars, vm_mapping, snapshot_name, os_info,
                   attempt, updates, slept>>

(***************************************************************************)
(* Cleanup, success, the exception handler                                 *)
(***************************************************************************)
\* Deletable without the test of the prefix
Deletable_noPrefix(snaps, now) ==
    {n \in snaps : /\ n.ts # BadTimestamp
                   /\ n.ts < now - snapshot_retention_days}

\* the snapshots _cleanup_old_snapshots deletes when nothing fails
\* (update_automator.py:452-466)
Deletable(snaps, now) ==
    {n \in snaps : /\ n.pre = snapshot_name_prefix
                   /\ n.ts # BadTimestamp
                   /\ n.ts < now - snapshot_retention_days}

\* CleanupWanted without the test of cleanup_snapshots
CleanupWanted_unconfigured ==
    /\ snapshot_name # None
    /\ config.proxmox
    /\ vm_mapping # None

\* "Clean up snapshot if successful and configured" (update_automator.py:284)
CleanupWanted ==
    /\ snapshot_name # None
    /\ config.proxmox
    /\ vm_mapping # None
    /\ config.cleanup_snapshots

\* update_automator.py:283-286 with _cleanup_old_snapshots (445-473): a failed
\* list deletes nothing, a failed delete ends the sweep; the log keeps
\* datetime.now() of the sweep and the names delete_snapshot was called for
CleanupOldSnapshots ==
    /\ pc = "cleanup"
    /\ pc' = "success"
    /\ IF CleanupWanted
       THEN \E out \in ApiOutcomes, now \in start_time..(start_time + 1) :
              IF out # "ok"
              THEN /\ ticket' = TicketAfter(out)
                   /\ calls' = Append(calls, Ev("_cleanup_old_snapshots", "fail"))
                   /\ UNCHANGED hvSnapshots
              ELSE \E D \in SUBSET Deletable(hvSnapshots, now),
                      last \in ApiOutcomes :
                     /\ (last = "ok") = (D = Deletable(hvSnapshots, now))
                     /\ ticket' = TicketAfter(last)
                     /\ hvSnapshots' = hvSnapshots \ D
                     /\ calls' = Append(calls, EvA("_cleanup_old_snapshots",
                                        IF last = "ok" THEN "ok" ELSE "fail",
                                        Some([now |-> now, deleted |-> D])))
       ELSE UNCHANGED <<ticket, hvSnapshots, calls>>
    /\ UNCHANGED <<inputVars, otherVars, vm_mapping, snapshot_name, os_info, attempt,
                   updates, revertSite, elapsed, slept, reports, openShells,
                   hvTask, hvCreated>>

\* update_automator.py:288-297
ReturnSuccess ==
    /\ pc = "success"
    /\ Return(AutomatedUpdateReport(UpdateReport(os_info, updates, "None"),
                                    "SUCCESS", snapshot_name, <<>>))
    /\ UNCHANGED <<inputVars, otherVars, hvVars, vm_mapping, snapshot_name, os_info,
                   attempt, updates, revertSite, elapsed, slept, calls>>

\* HandleException with the handler re-raising instead of returning a report
HandleException_reraise ==
    /\ pc = "exception"
    /\ pc' = "done"
    /\ UNCHANGED <<inputVars, otherVars, hvVars, vm_mapping, snapshot_name, os_info,
                   attempt, updates, revertSite, elapsed, slept, calls,
                   openShells, reports>>

\* except Exception (update_automator.py:299-310)
HandleException ==
    /\ pc = "exception"
    /\ reports' = Append(reports,
            AutomatedUpdateReport(UpdateReport(None, <<>>, "str(e)"),
                                  "FAILED_UPDATES", snapshot_name,
                                  <<"Unexpected error">>))
    /\ pc' = "done"
    /\ UNCHANGED <<inputVars, otherVars, hvVars, vm_mapping, snapshot_name, os_info,
                   attempt, updates, revertSite, elapsed, slept, calls,
                   openShells>>

(***************************************************************************)
(* The specification                                                       *)
(***************************************************************************)
Next ==
    \/ GetVMInfo
    \/ ConnectToHost
    \/ DetectOS
    \/ GetPackageManager
    \/ RefreshCache
    \/ CheckUpdates
    \/ Decide
    \/ SnapshotAuthenticate
    \/ SnapshotCreate
    \/ WaitForTaskPoll
    \/ WaitForTaskTimeout
    \/ HvTaskFinish
    \/ ApplyUpdates
    \/ RevertRequest
    \/ RebootConnect
    \/ RebootSend
    \/ AvailabilityPing
    \/ CheckSshConnect
    \/ CheckSshEcho
    \/ AvailabilityTimeout
    \/ CleanupOldSnapshots
    \/ ReturnSuccess
    \/ HandleException

Spec == Init /\ [][Next]_vars

TypeOK ==
    /\ config \in Configs
    /\ host \in Hosts
    /\ attempt \in 1..max_retries
    /\ elapsed \in 0..(TASK_TIMEOUT + TASK_POLL_SLEEP)
    /\ Len(reports) <= 1
    /\ \A i \in 1..Len(reports) : reports[i].result \in UpdateResult
    /\ openShells \subseteq {"main", "reboot", "probe"}
    /\ ticket \in BOOLEAN
    /\ hvCreated \in BOOLEAN

(***************************************************************************)
(* _cleanup_old_snapshots over any list of snapshots                       *)
(***************************************************************************)
\* names list_snapshots can return besides the snapshot of this run: older
\* automated snapshots on both sides of the cutoff, one an operator made, the
\* prefix followed by "_" and a time, the prefix followed by text that is no
\* time, the bare prefix, and the "current" entry of the Proxmox API
CleanupCandidates ==
    {[pre |-> snapshot_name_prefix, sep |-> "-", ts |-> 1],
     [pre |-> snapshot_name_prefix, sep |-> "-", ts |-> 3],
     [pre |-> snapshot_name_prefix, sep |-> "-", ts |-> 9],
     [pre |-> "manual-snap", sep |-> "-", ts |-> 1],
     [pre |-> snapshot_name_prefix, sep |-> "_", ts |-> 1],
     [pre |-> snapshot_name_prefix, sep |-> "-", ts |-> BadTimestamp],
     [pre |-> snapshot_name_prefix, sep |-> "", ts |-> BadTimestamp],
     [pre |-> "current", sep |-> "", ts |-> BadTimestamp]}

\* a pass that created its snapshot and applied the updates, about to clean
\* up (update_automator.py:283), with any snapshots on the VM
InitCleanup ==
    /\ config \in {c \in Configs : /\ c.proxmox
                                   /\ c.apply_updates
                                   /\ c.cleanup_snapshots
                                   /\ ~c.reboot_after_updates
                                   /\ c.mappings = Hosts
                                   /\ c.opt_out_hosts = {}}
    /\ host = "web1"
    /\ start_time = 10
    /\ pc = "cleanup"
    /\ vm_mapping = Some([node |-> "pve", vmid |-> 100, host_name |-> host])
    /\ snapshot_name = Some(SnapshotName(start_time))
    /\ os_info = Some([package_manager |-> "apt"])
    /\ attempt = 1
    /\ updates = <<"openssl">>
    /\ revertSite = "none"
    /\ elapsed = 0
    /\ slept = 0
    /\ reports = <<>>
    /\ calls = <<Ev("connect", "ok"), Ev("detect_os", "ok"),
                 Ev("refresh_cache", "ok"), Ev("check_updates", "ok"),
                 Ev("_create_snapshot", "call"),
                 EvA("_create_snapshot", "ok", snapshot_name)>>
                \o apply_updates("ok")
    /\ openShells = {"main"}
    /\ ticket = TRUE
    /\ hvTask = [kind |-> "none", status |-> "none"]
    /\ hvSnapshots \in {S \cup {SnapshotName(start_time)} :
                            S \in SUBSET CleanupCandidates}
    /\ hvCreated = TRUE
    /\ DispatchIdle
    /\ ApiIdle
    /\ WaitIdle
    /\ ProbeIdle
    /\ FnIdle
    /\ SshIdle

NextCleanup ==
    \/ CleanupOldSnapshots
    \/ ReturnSuccess

SpecCleanup == InitCleanup /\ [][NextCleanup]_vars

(***************************************************************************)
(* The dispatcher of the check command (main.py:111-142)                   *)
(***************************************************************************)
\* how a call of process_host can end (main.py:34-74)
ProcessOutcomes ==
    {"report", "connect_failed", "detect_failed", "unsupported", "exception"}

\* the UpdateReport process_host returns: every failure, the caught
\* exception included, gives a report of that host with error set
\* (main.py:43, 50, 55, 70, 72-74)
process_host(h, out) ==
    [host |-> h,
     error |-> CASE out = "report" -> "None"
                 [] out = "connect_failed" -> "Failed to connect via SSH"
                 [] out = "detect_failed" ->
                        "Failed to detect operating system"
                 [] out = "unsupported" -> "Unsupported package manager"
                 [] OTHER -> "str(e)"]

InitDispatch ==
    /\ hosts \in {[i \in 1..n |-> i] : n \in 1..NumHosts}
    /\ parallel \in 1..MaxParallel
    /\ mainPc = "submit"
    /\ submitted = 0
    /\ workQueue = <<>>
    /\ running = {}
    /\ futures = <<>>
    /\ checkReports = <<>>
    /\ PassIdle
    /\ ApiIdle
    /\ WaitIdle
    /\ ProbeIdle
    /\ FnIdle
    /\ SshIdle

\* executor.submit(process_host, host, ...) for the next host of the
\* inventory (main.py:117-120): the call is queued
Submit ==
    /\ mainPc = "submit"
    /\ submitted < Len(hosts)
    /\ submitted' = submitted + 1
    /\ workQueue' = Append(workQueue, hosts[submitted + 1])
    /\ mainPc' = (IF submitted + 1 = Len(hosts) THEN "collect" ELSE "submit")
    /\ UNCHANGED <<hosts, parallel, running, futures, checkReports,
                   besidesDispatch>>

\* WorkerTake with a pool that starts a worker for every queued call
WorkerTake_unbounded ==
    /\ workQueue # <<>>
    /\ running' = running \cup {Head(workQueue)}
    /\ workQueue' = Tail(workQueue)
    /\ UNCHANGED <<hosts, parallel, mainPc, submitted, futures, checkReports,
                   besidesDispatch>>

\* a worker of ThreadPoolExecutor(max_workers=parallel) (main.py:115) takes
\* the oldest queued call; the pool never has more than max_workers workers
WorkerTake ==
    /\ workQueue # <<>>
    /\ Cardinality(running) < parallel
    /\ running' = running \cup {Head(workQueue)}
    /\ workQueue' = Tail(workQueue)
    /\ UNCHANGED <<hosts, parallel, mainPc, submitted, futures, checkReports,
                   besidesDispatch>>

\* process_host returns; its future is finished with the report
\* (main.py:34-74)
WorkerFinish ==
    /\ \E h \in running, out \in ProcessOutcomes :
        /\ running' = running \ {h}
        /\ futures' = futures @@ (h :> process_host(h, out))
    /\ UNCHANGED <<hosts, parallel, mainPc, submitted, workQueue,
                   checkReports, besidesDispatch>>

\* the hosts whose report is in the list of the check command
Collected == {checkReports[i].host : i \in 1..Len(checkReports)}

\* Collect with the report of a pass that raised ending the collection
Collect_abortOnError ==
    /\ mainPc = "collect"
    /\ \E h \in (DOMAIN futures) \ Collected :
        IF futures[h].error = "str(e)"
        THEN mainPc' = "done" /\ UNCHANGED checkReports
        ELSE checkReports' = Append(checkReports, futures[h])
                /\ UNCHANGED mainPc
    /\ UNCHANGED <<hosts, parallel, submitted, workQueue, running,
                   futures, besidesDispatch>>

\* one turn of `for future in as_completed(future_to_host)`: any finished
\* future not yet handed out; its report is appended (main.py:123-127)
Collect ==
    /\ mainPc = "collect"
    /\ \E h \in (DOMAIN futures) \ Collected :
        checkReports' = Append(checkReports, futures[h])
    /\ UNCHANGED <<hosts, parallel, mainPc, submitted, workQueue, running,
                   futures, besidesDispatch>>

\* as_completed is exhausted when every future was handed out; the `with`
\* block of the pool is left (main.py:123, 115)
CollectDone ==
    /\ mainPc = "collect"
    /\ Len(checkReports) = Len(hosts)
    /\ mainPc' = "done"
    /\ UNCHANGED <<hosts, parallel, submitted, workQueue, running, futures,
                   checkReports, besidesDispatch>>

NextDispatch ==
    \/ Submit
    \/ WorkerTake
    \/ WorkerFinish
    \/ Collect
    \/ CollectDone

SpecDispatch == InitDispatch /\ [][NextDispatch]_vars

(***************************************************************************)
(* ProxmoxClient._api_request and authenticate, statement by statement,    *)
(* for threads that share one client (proxmox_client.py:67-139)            *)
(***************************************************************************)
\* a client never used, or one an earlier call authenticated, whose ticket
\* the server still accepts or has let expire; one or two threads call
\* _api_request
InitApi ==
    /\ \E used \in BOOLEAN :
        /\ clientTicket = (IF used THEN 1 ELSE 0)
        /\ clientCsrf = clientTicket
        /\ sessionHeader = clientTicket
        /\ sessionCookie = clientTicket
        /\ issued = clientTicket
        /\ valid \in (IF used THEN {{}, {1}} ELSE {{}})
    /\ apiPc \in {f \in [Threads -> {"entry", "unused"}] : f["t1"] = "entry"}
    /\ apiData = [t \in Threads |-> 0]
    /\ apiFrom = [t \in Threads |-> "entry"]
    /\ apiReauths = [t \in Threads |-> 0]
    /\ apiSent = [t \in Threads |-> <<0, 0>>]
    /\ expiryAuths = 0
    /\ PassIdle
    /\ DispatchIdle
    /\ WaitIdle
    /\ ProbeIdle
    /\ FnIdle
    /\ SshIdle

\* `if not self.ticket:` (proxmox_client.py:101-102)
ApiEnter(t) ==
    /\ apiPc[t] = "entry"
    /\ IF clientTicket = 0
       THEN /\ apiPc' = [apiPc EXCEPT ![t] = "auth_post"]
            /\ apiFrom' = [apiFrom EXCEPT ![t] = "entry"]
       ELSE /\ apiPc' = [apiPc EXCEPT ![t] = "send"]
            /\ UNCHANGED apiFrom
    /\ UNCHANGED <<clientTicket, clientCsrf, sessionHeader, sessionCookie,
                   issued, valid, apiData, apiReauths, apiSent, expiryAuths,
                   besidesApi>>

\* authenticate: the POST to /access/ticket (proxmox_client.py:69-78); any
\* other answer than 200, or an exception, makes authenticate return False
\* and _api_request raise (proxmox_client.py:88-95, 102-103, 127-128)
AuthPost(t) ==
    /\ apiPc[t] = "auth_post"
    /\ apiReauths' = [apiReauths EXCEPT
                        ![t] = @ + (IF apiFrom[t] = "401" THEN 1 ELSE 0)]
    /\ expiryAuths' = expiryAuths + (IF apiFrom[t] = "401" THEN 1 ELSE 0)
    /\ \E ok \in BOOLEAN :
        IF ok /\ issued < MaxAuths
        THEN /\ issued' = issued + 1
             /\ valid' = valid \cup {issued + 1}
             /\ apiData' = [apiData EXCEPT ![t] = issued + 1]
             /\ apiPc' = [apiPc EXCEPT ![t] = "auth_ticket"]
        ELSE /\ apiPc' = [apiPc EXCEPT ![t] = "raised"]
             /\ UNCHANGED <<issued, valid, apiData>>
    /\ UNCHANGED <<clientTicket, clientCsrf, sessionHeader, sessionCookie,
                   apiFrom, apiSent, besidesApi>>

\* self.ticket = data["ticket"] (proxmox_client.py:79)
AuthStoreTicket(t) ==
    /\ apiPc[t] = "auth_ticket"
    /\ clientTicket' = apiData[t]
    /\ apiPc' = [apiPc EXCEPT ![t] = "auth_csrf"]
    /\ UNCHANGED <<clientCsrf, sessionHeader, sessionCookie, issued, valid,
                   apiData, apiFrom, apiReauths, apiSent, expiryAuths,
                   besidesApi>>

\* self.csrf_token = data["CSRFPreventionToken"] (proxmox_client.py:80)
AuthStoreCsrf(t) ==
    /\ apiPc[t] = "auth_csrf"
    /\ clientCsrf' = apiData[t]
    /\ apiPc' = [apiPc EXCEPT ![t] = "auth_header"]
    /\ UNCHANGED <<clientTicket, sessionHeader, sessionCookie, issued, valid,
                   apiData, apiFrom, apiReauths, apiSent, expiryAuths,
                   besidesApi>>

\* session.headers.update({"CSRFPreventionToken": self.csrf_token})
\* (proxmox_client.py:83)
AuthSetHeader(t) ==
    /\ apiPc[t] = "auth_header"
    /\ sessionHeader' = clientCsrf
    /\ apiPc' = [apiPc EXCEPT ![t] = "auth_cookie"]
    /\ UNCHANGED <<clientTicket, clientCsrf, sessionCookie, issued, valid,
                   apiData, apiFrom, apiReauths, apiSent, expiryAuths,
                   besidesApi>>

\* session.cookies.set("PVEAuthCookie", self.ticket) and return True
\* (proxmox_client.py:84-87); the caller goes on to its request
\* (proxmox_client.py:105) or calls _api_request again
\* (proxmox_client.py:129)
AuthSetCookie(t) ==
    /\ apiPc[t] = "auth_cookie"
    /\ sessionCookie' = clientTicket
    /\ apiPc' = [apiPc EXCEPT ![t] = IF apiFrom[t] = "401" THEN "entry"
                                     ELSE "send"]
    /\ UNCHANGED <<clientTicket, clientCsrf, sessionHeader, issued, valid,
                   apiData, apiFrom, apiReauths, apiSent, expiryAuths,
                   besidesApi>>

\* what the server can answer to a request with this cookie and header: 401
\* for a ticket it does not accept, and for a CSRF token of another ticket
\* on a writing request; "error" is any other status than 200, 201 and 401
\* and a RequestException
Responses(cookie, header) ==
    IF cookie \notin valid THEN {"401", "error"}
    ELSE IF header # cookie THEN {"401", "200", "error"}
    ELSE {"200", "error"}

\* the request and the tests of its status (proxmox_client.py:107-139)
ApiSend(t) ==
    /\ apiPc[t] = "send"
    /\ apiSent' = [apiSent EXCEPT ![t] = <<sessionCookie, sessionHeader>>]
    /\ \E resp \in Responses(sessionCookie, sessionHeader) :
        CASE resp = "401" ->
                /\ clientTicket' = 0
                /\ apiFrom' = [apiFrom EXCEPT ![t] = "401"]
                /\ apiPc' = [apiPc EXCEPT ![t] = "auth_post"]
          [] resp = "200" ->
                /\ apiPc' = [apiPc EXCEPT ![t] = "returned"]
                /\ UNCHANGED <<clientTicket, apiFrom>>
          [] OTHER ->
                /\ apiPc' = [apiPc EXCEPT ![t] = "raised"]
                /\ UNCHANGED <<clientTicket, apiFrom>>
    /\ UNCHANGED <<clientCsrf, sessionHeader, sessionCookie, issued, valid,
                   apiData, apiReauths, expiryAuths, besidesApi>>

\* the server lets the tickets it issued expire
TicketsExpire ==
    /\ valid # {}
    /\ valid' = {}
    /\ expiryAuths' = 0
    /\ UNCHANGED <<clientTicket, clientCsrf, sessionHeader, sessionCookie,
                   issued, apiPc, apiData, apiFrom, apiReauths, apiSent,
                   besidesApi>>

NextApi ==
    \/ \E t \in Threads : ApiEnter(t)
    \/ \E t \in Threads : AuthPost(t)
    \/ \E t \in Threads : AuthStoreTicket(t)
    \/ \E t \in Threads : AuthStoreCsrf(t)
    \/ \E t \in Threads : AuthSetHeader(t)
    \/ \E t \in Threads : AuthSetCookie(t)
    \/ \E t \in Threads : ApiSend(t)
    \/ TicketsExpire

SpecApi == InitApi /\ [][NextApi]_vars

(***************************************************************************)
(* ProxmoxClient.wait_for_task with the time its requests take             *)
(* (proxmox_client.py:206-233)                                             *)
(***************************************************************************)
InitWait ==
    /\ waitPc = "test"
    /\ waitTimeout \in 1..MaxWaitTimeout
    /\ waitClock = 0
    /\ waitResult = "none"
    /\ taskStatus = "running"
    /\ polls = <<>>
    /\ PassIdle
    /\ DispatchIdle
    /\ ApiIdle
    /\ ProbeIdle
    /\ FnIdle
    /\ SshIdle

\* `while time.time() - start_time < timeout:` and, when it fails, the
\* return after the loop (proxmox_client.py:211, 232-233)
WaitLoopTest ==
    /\ waitPc = "test"
    /\ IF waitClock < waitTimeout
       THEN /\ waitPc' = "request"
            /\ UNCHANGED waitResult
       ELSE /\ waitPc' = "returned"
            /\ waitResult' = "false"
    /\ UNCHANGED <<waitTimeout, waitClock, taskStatus, polls, besidesWait>>

\* what a status request can give for the task: "error" is an exception of
\* _api_request, "running" any answer whose status is not "stopped"
PollAnswers ==
    {"error"} \cup
        (CASE taskStatus = "running" -> {"running"}
           [] taskStatus = "OK" -> {"stopped_OK"}
           [] OTHER -> {"stopped_other"})

\* WaitPoll with a poll that raised ending the wait
WaitPoll_errorReturns ==
    /\ waitPc = "request"
    /\ \E d \in 0..MaxLatency, answer \in PollAnswers :
        /\ polls' = Append(polls, [started |-> waitClock,
                                   reported |-> waitClock + d,
                                   answer |-> answer])
        /\ CASE answer = "stopped_OK" ->
                    /\ waitResult' = "true"
                    /\ waitPc' = "returned"
                    /\ waitClock' = waitClock + d
             [] answer \in {"stopped_other", "error"} ->
                    /\ waitResult' = "false"
                    /\ waitPc' = "returned"
                    /\ waitClock' = waitClock + d
             [] OTHER ->
                    /\ waitClock' = waitClock + d + TASK_POLL_SLEEP
                    /\ waitPc' = "test"
                    /\ UNCHANGED waitResult
    /\ UNCHANGED <<waitTimeout, taskStatus, besidesWait>>

\* one status poll: the request, which takes its time, and what is done with
\* the answer (proxmox_client.py:212-230)
WaitPoll ==
    /\ waitPc = "request"
    /\ \E d \in 0..MaxLatency, answer \in PollAnswers :
        /\ polls' = Append(polls, [started |-> waitClock,
                                   reported |-> waitClock + d,
                                   answer |-> answer])
        /\ CASE answer = "stopped_OK" ->
                    /\ waitResult' = "true"
                    /\ waitPc' = "returned"
                    /\ waitClock' = waitClock + d
             [] answer = "stopped_other" ->
                    /\ waitResult' = "false"
                    /\ waitPc' = "returned"
                    /\ waitClock' = waitClock + d
             [] OTHER ->
                    /\ waitClock' = waitClock + d + TASK_POLL_SLEEP
                    /\ waitPc' = "test"
                    /\ UNCHANGED waitResult
    /\ UNCHANGED <<waitTimeout, taskStatus, besidesWait>>

\* the task ends on the server with some exit status
TaskEnds ==
    /\ taskStatus = "running"
    /\ waitPc # "returned"
    /\ taskStatus' \in {"OK", "failed"}
    /\ UNCHANGED <<waitPc, waitTimeout, waitClock, waitResult, polls,
                   besidesWait>>

NextWait ==
    \/ WaitLoopTest
    \/ WaitPoll
    \/ TaskEnds

SpecWait == InitWait /\ [][NextWait]_vars

(***************************************************************************)
(* HostChecker.wait_for_host_availability with the time its probes take    *)
(* (host_checker.py:48-118)                                                *)
(***************************************************************************)
InitProbe ==
    /\ probePc = "test"
    /\ max_wait_time \in 1..MaxProbeWait
    /\ use_ssh \in BOOLEAN
    /\ probeClock = 0
    /\ probeResult = "none"
    /\ probeShell = FALSE
    /\ cycles = <<>>
    /\ PassIdle
    /\ DispatchIdle
    /\ ApiIdle
    /\ WaitIdle
    /\ FnIdle
    /\ SshIdle

\* the running cycle with one of its fields set
CycleWith(field, value) ==
    [cycles EXCEPT ![Len(cycles)] = [@ EXCEPT ![field] = value]]

\* `while time.time() - start_time < max_wait_time:` and, when it fails,
\* the return after the loop (host_checker.py:67, 94-96)
ProbeLoopTest ==
    /\ probePc = "test"
    /\ IF probeClock < max_wait_time
       THEN /\ probePc' = "ping"
            /\ cycles' = Append(cycles, [started |-> probeClock,
                                         ping |-> "none", ssh |-> "none",
                                         echo |-> "none"])
            /\ UNCHANGED probeResult
       ELSE /\ probePc' = "returned"
            /\ probeResult' = "false"
            /\ UNCHANGED cycles
    /\ UNCHANGED <<max_wait_time, use_ssh, probeClock, probeShell,
                   besidesProbe>>

\* ping_host and what the cycle does with its result (host_checker.py:74-90);
\* ping_host returns False for a ping that failed or timed out and lets an
\* OSError of subprocess.run through (host_checker.py:40-46), which ends
\* wait_for_host_availability with that exception
ProbePing ==
    /\ probePc = "ping"
    /\ \E d \in 0..MaxLatency, ping \in {"ok", "fail", "raise"} :
        /\ cycles' = CycleWith("ping", ping)
        /\ CASE ping = "ok" /\ use_ssh ->
                    /\ probePc' = "ssh_connect"
                    /\ probeClock' = probeClock + d
                    /\ UNCHANGED probeResult
             [] ping = "ok" /\ ~use_ssh ->
                    /\ probePc' = "returned"
                    /\ probeResult' = "true"
                    /\ probeClock' = probeClock + d
             [] ping = "fail" ->
                    /\ probePc' = "test"
                    /\ probeClock' = probeClock + d + check_interval
                    /\ UNCHANGED probeResult
             [] OTHER ->
                    /\ probePc' = "returned"
                    /\ probeResult' = "raised"
                    /\ probeClock' = probeClock + d
    /\ UNCHANGED <<max_wait_time, use_ssh, probeShell, besidesProbe>>

\* _check_ssh_connectivity: connect (host_checker.py:108-111, 115-118); a
\* failed connect gives False and the cycle sleeps (host_checker.py:87, 92)
ProbeSshConnect ==
    /\ probePc = "ssh_connect"
    /\ \E d \in 0..MaxLatency, ok \in BOOLEAN :
        /\ cycles' = CycleWith("ssh", IF ok THEN "ok" ELSE "fail")
        /\ IF ok
           THEN /\ probeShell' = TRUE
                /\ probePc' = "ssh_echo"
                /\ probeClock' = probeClock + d
           ELSE /\ probePc' = "test"
                /\ probeClock' = probeClock + d + check_interval
                /\ UNCHANGED probeShell
    /\ UNCHANGED <<max_wait_time, use_ssh, probeResult, besidesProbe>>

\* _check_ssh_connectivity: `echo test`, the connection is closed on leaving
\* the `with` block (host_checker.py:113-118); exit code 0 makes
\* wait_for_host_availability return True (host_checker.py:83-85)
ProbeSshEcho ==
    /\ probePc = "ssh_echo"
    /\ probeShell' = FALSE
    /\ \E d \in 0..MaxLatency, echo \in {"0", "nonzero", "raise"} :
        /\ cycles' = CycleWith("echo", echo)
        /\ IF echo = "0"
           THEN /\ probePc' = "returned"
                /\ probeResult' = "true"
                /\ probeClock' = probeClock + d
           ELSE /\ probePc' = "test"
                /\ probeClock' = probeClock + d + check_interval
                /\ UNCHANGED probeResult
    /\ UNCHANGED <<max_wait_time, use_ssh, besidesProbe>>

NextProbe ==
    \/ ProbeLoopTest
    \/ ProbePing
    \/ ProbeSshConnect
    \/ ProbeSshEcho

SpecProbe == InitProbe /\ [][NextProbe]_vars

(***************************************************************************)
(* The bodies of the automated update e-mail                               *)
(* (email_sender.py:563-616, 885-943)                                      *)
(***************************************************************************)
\* the reports whose result is one of rs, in the order of the list
\* (`[r for r in reports if r.result ...]`, email_sender.py:564-579)
ReportsWith(reports_, rs) == SelectSeq(reports_, LAMBDA r : r.result \in rs)

\* the groups both bodies sort the reports into (email_sender.py:564-579,
\* 886-901)
GroupResults(g) ==
    CASE g = "critical_hosts" -> {"REVERT_FAILED"}
      [] g = "reverted_hosts" -> {"REVERTED"}
      [] g = "failed_hosts" -> {"FAILED_UPDATES", "FAILED_REBOOT",
                                "FAILED_AVAILABILITY", "FAILED_SNAPSHOT"}
      [] g = "successful_hosts" -> {"SUCCESS"}
      [] g = "opt_out_hosts" -> {"OPT_OUT"}
      [] OTHER -> {"NO_UPDATES"}

\* a body as the sequence of its sections: for each group of the given
\* order that is not empty, its heading and its reports
RECURSIVE Sections(_, _)
Sections(reports_, order) ==
    IF order = <<>> THEN <<>>
    ELSE LET g == Head(order)
             rs == ReportsWith(reports_, GroupResults(g))
         IN  (IF rs = <<>> THEN <<>> ELSE <<[group |-> g, hosts |-> rs]>>)
                \o Sections(reports_, Tail(order))

\* _generate_automated_html_body: the order of its `if ..._hosts:` blocks
\* (email_sender.py:581-616)
generate_automated_html_body(reports_) ==
    Sections(reports_, <<"critical_hosts", "reverted_hosts", "failed_hosts",
                         "opt_out_hosts", "successful_hosts",
                         "no_update_hosts">>)

\* _generate_automated_text_body: the order of its `if ..._hosts:` blocks
\* (email_sender.py:903-943)
generate_automated_text_body(reports_) ==
    Sections(reports_, <<"critical_hosts", "reverted_hosts", "failed_hosts",
                         "successful_hosts", "opt_out_hosts",
                         "no_update_hosts">>)

\* the lists of reports handed to the renderers
ReportLists ==
    UNION {[1..n -> UpdateResult] : n \in 0..MaxReports}

InitRender ==
    /\ fnArgs \in {[i \in 1..Len(rs) |-> [host |-> i, result |-> rs[i]]] :
                        rs \in ReportLists}
    /\ fnResult = None
    /\ fnCalls = 0
    /\ FnAlone

\* both bodies of one e-mail are built from the same list of reports
RenderBodies ==
    /\ fnCalls = 0
    /\ fnResult' = Some([html |-> generate_automated_html_body(fnArgs),
                         text |-> generate_automated_text_body(fnArgs)])
    /\ fnCalls' = 1
    /\ UNCHANGED <<fnArgs, besidesFn>>

NextRender == RenderBodies

SpecRender == InitRender /\ [][NextRender]_vars

(***************************************************************************)
(* Where the hypervisor requests of a pass are sent                        *)
(* (update_automator.py:71-89, 312-375, 445-473; proxmox_client.py:67-139)  *)
(***************************************************************************)
\* the [proxmox] section of the configuration (update_automator.py:75-77)
proxmox_config ==
    [endpoint |-> "https://pve.example.com:8006", username |-> "root@pam",
     password |-> "global-secret"]

\* the ProxmoxClient operations a pass calls (update_automator.py:323, 334,
\* 354, 363, 450, 466)
HypervisorOps ==
    {"create_snapshot", "rollback_snapshot", "list_snapshots",
     "delete_snapshot", "wait_for_task"}

\* the VM mappings get_vm_info can return: endpoint, username and password
\* are each given or left out (vm_mapping.py:16-24, 80-82)
VMMappings ==
    [node : {"pve"}, vmid : {100}, host_name : Hosts,
     endpoint : {None, Some("https://node2.example.com:8006")},
     username : {None, Some("root@node2")},
     password : {None, Some("node2-secret")}]

InitEndpoint ==
    /\ fnArgs \in [vm_mapping : VMMappings, op : HypervisorOps]
    /\ fnResult = None
    /\ fnCalls = 0
    /\ FnAlone

\* one hypervisor operation of the pass: it is called on self.proxmox_client,
\* the one client built from the [proxmox] section (update_automator.py:
\* 74-80), with vm_mapping.node and vm_mapping.vmid only; the client logs in
\* with self.username and self.password and sends to self.endpoint
\* (proxmox_client.py:70-71, 105)
HypervisorRequest ==
    /\ fnCalls = 0
    /\ fnResult' = Some([op |-> fnArgs.op,
                         node |-> fnArgs.vm_mapping.node,
                         vmid |-> fnArgs.vm_mapping.vmid,
                         endpoint |-> proxmox_config.endpoint,
                         username |-> proxmox_config.username,
                         password |-> proxmox_config.password])
    /\ fnCalls' = 1
    /\ UNCHANGED <<fnArgs, besidesFn>>

NextEndpoint == HypervisorRequest

SpecEndpoint == InitEndpoint /\ [][NextEndpoint]_vars

(***************************************************************************)
(* One SSHConnection through any sequence of connect, execute_command and  *)
(* disconnect (ssh_manager.py:18-139)                                      *)
(***************************************************************************)
\* one call on the connection: how it ended and the fields it left
SshCall(op, outcome, client_, connected_) ==
    [op |-> op, outcome |-> outcome, client |-> client_,
     connected |-> connected_]

\* SSHConnection.__init__ (ssh_manager.py:21-27)
InitSsh ==
    /\ client = None
    /\ connected = FALSE
    /\ sshLog = <<>>
    /\ PassIdle
    /\ DispatchIdle
    /\ ApiIdle
    /\ WaitIdle
    /\ ProbeIdle
    /\ FnIdle

\* connect (ssh_manager.py:29-98): the paramiko client is made and stored
\* (line 60) before the connection is tried; True with connected = True
\* (lines 84-86); on any exception connected = False and False is returned
\* (lines 88-98); when the constructor itself raised self.client is what it
\* was
connect ==
    /\ Len(sshLog) < MaxSshOps
    /\ \E outcome \in {"True", "False", "False_no_client"} :
        /\ client' = IF outcome = "False_no_client" THEN client
                     ELSE Some("SSHClient")
        /\ connected' = (outcome = "True")
        /\ sshLog' = Append(sshLog,
                            SshCall("connect", outcome, client', connected'))
    /\ UNCHANGED besidesSsh

\* execute_command with the test of self.connected left out
execute_command_clientOnly ==
    /\ Len(sshLog) < MaxSshOps
    /\ \E outcome \in IF client = None THEN {"RuntimeError"}
                      ELSE {"returned", "error_returned"} :
        sshLog' = Append(sshLog,
                         SshCall("execute_command", outcome, client,
                                 connected))
    /\ UNCHANGED <<client, connected, besidesSsh>>

\* execute_command (ssh_manager.py:100-127): RuntimeError when not connected
\* or without a client (lines 111-112, outside the try); otherwise
\* exec_command is called and the call returns its exit code and output
\* (lines 116-123) or, on an exception, (-1, "", message) (lines 125-127)
execute_command ==
    /\ Len(sshLog) < MaxSshOps
    /\ \E outcome \in IF ~connected \/ client = None THEN {"RuntimeError"}
                      ELSE {"returned", "error_returned"} :
        sshLog' = Append(sshLog,
                         SshCall("execute_command", outcome, client,
                                 connected))
    /\ UNCHANGED <<client, connected, besidesSsh>>

\* disconnect (ssh_manager.py:129-139): with a client, close it and, whether
\* or not close raised, client = None and connected = False; without one,
\* nothing
disconnect ==
    /\ Len(sshLog) < MaxSshOps
    /\ IF client # None
       THEN /\ client' = None
            /\ connected' = FALSE
            /\ \E outcome \in {"closed", "close_raised"} :
                sshLog' = Append(sshLog,
                                 SshCall("disconnect", outcome, client',
                                         connected'))
       ELSE /\ sshLog' = Append(sshLog,
                                SshCall("disconnect", "nothing", client,
                                        connected))
            /\ UNCHANGED <<client, connected>>
    /\ UNCHANGED besidesSsh

NextSsh ==
    \/ connect
    \/ execute_command
    \/ disconnect

SpecSsh == InitSsh /\ [][NextSsh]_vars

(***************************************************************************)
(* Loading the VM mapping file (vm_mapping.py:58-126)                      *)
(***************************************************************************)
\* a value of the parsed file: what kind it is, its number when it is an
\* integer and its characters when it is a string
Toml(type, int, chars) == [type |-> type, int |-> int, chars |-> chars]
TomlInt(n) == Toml("int", n, <<>>)
TomlStr(cs) == Toml("str", 0, cs)
\* a non-empty array
TomlArray == Toml("array", 0, <<>>)
\* what dict.get returns for a key that is not there
PyNone == Toml("none", 0, <<>>)

\* Python's truth value, as `not node or not vmid` uses it (vm_mapping.py:84)
Truthy(x) ==
    CASE x.type = "none" -> FALSE
      [] x.type = "int" -> x.int # 0
      [] x.type = "str" -> x.chars # <<>>
      [] OTHER -> TRUE

Digits == <<"0", "1", "2", "3", "4", "5", "6", "7", "8", "9">>
DigitOf(c) == (CHOOSE d \in 1..Len(Digits) : Digits[d] = c) - 1
IsDigit(c) == \E d \in 1..Len(Digits) : Digits[d] = c

\* the number a run of decimal digits writes
RECURSIVE DecimalOf(_)
DecimalOf(cs) ==
    IF cs = <<>> THEN 0
    ELSE DecimalOf(SubSeq(cs, 1, Len(cs) - 1)) * Len(Digits)
             + DigitOf(cs[Len(cs)])

\* Python's int(): an integer is itself; a string is an optional sign and
\* decimal digits, anything else in it is a ValueError; an array or None is
\* a TypeError
PyInt(x) ==
    CASE x.type = "int" -> [raised |-> "no", int |-> x.int]
      [] x.type = "str" ->
            LET signed == x.chars # <<>> /\ x.chars[1] \in {"-", "+"}
                digits == IF signed THEN Tail(x.chars) ELSE x.chars
            IN  IF digits # <<>> /\ \A i \in 1..Len(digits) : IsDigit(digits[i])
                THEN [raised |-> "no",
                      int |-> IF signed /\ x.chars[1] = "-"
                              THEN 0 - DecimalOf(digits)
                              ELSE DecimalOf(digits)]
                ELSE [raised |-> "ValueError", int |-> 0]
      [] OTHER -> [raised |-> "TypeError", int |-> 0]

\* the host names of the `vms` table
MappedNames == {"web1", "web2"}

\* the values tried for the keys of one entry
NodeValues == {PyNone, TomlStr(<<>>), TomlStr(<<"p", "v", "e">>)}
VmidValues ==
    {PyNone, TomlInt(100), TomlInt(0), TomlInt(0 - 5),
     TomlStr(<<"1", "0", "1">>), TomlStr(<<"-", "7">>),
     TomlStr(<<"a", "b", "c">>), TomlArray}
MaxSnapshotsValues ==
    {PyNone, TomlInt(3), TomlInt(0 - 1), TomlStr(<<"x">>), TomlArray}

\* the entries of the `vms` table: a table with some of the keys node, vmid
\* and max_snapshots, or a value that is not a table
VmInfos ==
    [is_table : {TRUE}, node : NodeValues, vmid : VmidValues,
     max_snapshots : MaxSnapshotsValues]
    \cup {[is_table |-> FALSE, node |-> PyNone, vmid |-> PyNone,
           max_snapshots |-> PyNone]}

\* one turn of the loop over vms.items() (vm_mapping.py:71-114): "skipped"
\* after a warning and continue, "raised" when an exception leaves the loop,
\* "kept" with the VMMapping stored
LoadEntry(host_name, vm_info) ==
    LET no == [kept |-> "skipped", mapping |-> None]
        vmid == PyInt(vm_info.vmid)
        max_snapshots == PyInt(vm_info.max_snapshots)
    IN  CASE ~vm_info.is_table -> no
          [] ~Truthy(vm_info.node) \/ ~Truthy(vm_info.vmid) -> no
          [] vmid.raised = "ValueError" -> no
          [] vmid.raised = "TypeError" -> [no EXCEPT !.kept = "raised"]
          [] /\ vm_info.max_snapshots # PyNone
             /\ max_snapshots.raised = "TypeError" ->
                [no EXCEPT !.kept = "raised"]
          [] OTHER ->
                [kept |-> "kept",
                 mapping |->
                    Some([node |-> vm_info.node,
                          vmid |-> vmid.int,
                          host_name |-> host_name,
                          max_snapshots |->
                              IF \/ vm_info.max_snapshots = PyNone
                                 \/ max_snapshots.raised = "ValueError"
                                 \/ max_snapshots.int < 0
                              THEN None
                              ELSE Some(max_snapshots.int),
                          endpoint |-> None,
                          username |-> None,
                          password |-> None])]

\* _load_mappings on a file that exists and parses: the registry of the
\* kept entries, or exit(1) from the outer handler when a turn raised
\* (vm_mapping.py:123-125)
load_mappings(vms) ==
    IF \E h \in DOMAIN vms : LoadEntry(h, vms[h]).kept = "raised"
    THEN [exit |-> TRUE, mappings |-> <<>>]
    ELSE [exit |-> FALSE,
          mappings |->
             [h \in {n \in DOMAIN vms : LoadEntry(n, vms[n]).kept = "kept"}
                 |-> CHOOSE mp \in LoadEntry(h, vms[h]).mapping : TRUE]]

InitLoad ==
    /\ fnArgs \in [MappedNames -> VmInfos]
    /\ fnResult = None
    /\ fnCalls = 0
    /\ FnAlone

\* VMMapper.__init__ (vm_mapping.py:30-38) loads the file once
LoadMappings ==
    /\ fnCalls = 0
    /\ fnResult' = Some(load_mappings(fnArgs))
    /\ fnCalls' = 1
    /\ UNCHANGED <<fnArgs, besidesFn>>

NextLoad == LoadMappings

SpecLoad == InitLoad /\ [][NextLoad]_vars

(***************************************************************************)
(* The OS probe: _parse_os_info and _detect_package_manager                *)
(* (os_detector.py:46-79, 174-297)                                         *)
(***************************************************************************)
\* OS_PATTERNS in the order of the dict (os_detector.py:61-79)
OS_PATTERNS ==
    <<
      [pattern |-> "ubuntu", family |-> "linux", default_pm |-> "apt"],
      [pattern |-> "debian", family |-> "linux", default_pm |-> "apt"],
      [pattern |-> "linuxmint", family |-> "linux", default_pm |-> "apt"],
      [pattern |-> "mint", family |-> "linux", default_pm |-> "apt"],
      [pattern |-> "centos", family |-> "linux", default_pm |-> "yum"],
      [pattern |-> "rhel", family |-> "linux", default_pm |-> "yum"],
      [pattern |-> "red hat", family |-> "linux", default_pm |-> "yum"],
      [pattern |-> "fedora", family |-> "linux", default_pm |-> "dnf"],
      [pattern |-> "opensuse", family |-> "linux", default_pm |-> "zypper"],
      [pattern |-> "suse", family |-> "linux", default_pm |-> "zypper"],
      [pattern |-> "arch", family |-> "linux", default_pm |-> "pacman"],
      [pattern |-> "manjaro", family |-> "linux", default_pm |-> "pacman"],
      [pattern |-> "alpine", family |-> "linux", default_pm |-> "apk"],
      [pattern |-> "freebsd", family |-> "freebsd", default_pm |-> "pkg"],
      [pattern |-> "openbsd", family |-> "openbsd", default_pm |-> "pkg_add"],
      [pattern |-> "darwin", family |-> "darwin", default_pm |-> "brew"],
      [pattern |-> "macos", family |-> "darwin", default_pm |-> "brew"]
    >>

\* `sub in s` of two strings
Contains(sub, s) ==
    \E i \in 0..(Len(s) - Len(sub)) : SubSeq(s, i + 1, i + Len(sub)) = sub

UpperCase == "ABCDEFGHIJKLMNOPQRSTUVWXYZ"
LowerCase == "abcdefghijklmnopqrstuvwxyz"

\* str.lower()
RECURSIVE Lower(_)
Lower(s) ==
    IF s = "" THEN ""
    ELSE LET c == SubSeq(s, 1, 1)
             up == {i \in 1..Len(UpperCase) : SubSeq(UpperCase, i, i) = c}
         IN  (IF up = {} THEN c
              ELSE LET i == CHOOSE k \in up : TRUE
                   IN  SubSeq(LowerCase, i, i))
             \o Lower(SubSeq(s, 2, Len(s)))

\* the white space of the strings of the model
Whitespace == {" ", "\n"}

\* str.strip()
RECURSIVE Strip(_)
Strip(s) ==
    CASE s = "" -> ""
      [] SubSeq(s, 1, 1) \in Whitespace -> Strip(SubSeq(s, 2, Len(s)))
      [] SubSeq(s, Len(s), Len(s)) \in Whitespace ->
            Strip(SubSeq(s, 1, Len(s) - 1))
      [] OTHER -> s

\* _normalize_distribution_name (os_detector.py:233-269)
normalize_distribution_name(name) ==
    LET distribution == Strip(Lower(name))
        has(sub) == Contains(sub, distribution)
    IN  CASE has("red hat") \/ has("redhat") -> "rhel"
          [] has("centos") -> "centos"
          [] has("ubuntu") -> "ubuntu"
          [] has("linuxmint") \/ has("linux mint") \/ distribution = "mint" ->
                "linuxmint"
          [] has("debian") -> "debian"
          [] has("fedora") -> "fedora"
          [] has("opensuse") \/ has("suse") -> "opensuse"
          [] has("arch") -> "arch"
          [] has("manjaro") -> "manjaro"
          [] has("alpine") -> "alpine"
          [] has("freebsd") -> "freebsd"
          [] has("openbsd") -> "openbsd"
          [] has("darwin") \/ has("macos") -> "macos"
          [] OTHER -> distribution

\* the value of a key that is there
ValueOf(field) == CHOOSE v \in field : TRUE

\* a dict with none of its keys is false
EmptyDict(d) == \A k \in DOMAIN d : d[k] = None

\* the OS_PATTERNS entries whose pattern is in the name, in dict order
MatchingPatterns(distribution) ==
    SelectSeq(OS_PATTERNS, LAMBDA p : Contains(p.pattern, Lower(distribution)))

\* _parse_os_info (os_detector.py:174-231): a dict is a record whose keys
\* are None when the signal did not have them
parse_os_info(uname_info, os_release_info, lsb_info) ==
    LET \* os-release first (lines 187-196)
        distribution1 ==
            CASE os_release_info.ID # None -> Lower(ValueOf(os_release_info.ID))
              [] os_release_info.NAME # None ->
                    Lower(ValueOf(os_release_info.NAME))
              [] OTHER -> "unknown"
        version1 ==
            CASE os_release_info.VERSION_ID # None ->
                    ValueOf(os_release_info.VERSION_ID)
              [] os_release_info.VERSION # None ->
                    ValueOf(os_release_info.VERSION)
              [] OTHER -> "unknown"
        \* lsb only when the distribution is still unknown (lines 199-203)
        useLsb == distribution1 = "unknown" /\ ~EmptyDict(lsb_info)
        distribution2 ==
            IF useLsb /\ lsb_info.Distributor_ID # None
            THEN Lower(ValueOf(lsb_info.Distributor_ID))
            ELSE distribution1
        version2 ==
            IF useLsb /\ lsb_info.Release # None
            THEN ValueOf(lsb_info.Release)
            ELSE version1
        \* uname only when the distribution is still unknown (lines 206-216)
        kernel_name ==
            IF uname_info.kernel_name = None THEN ""
            ELSE Lower(ValueOf(uname_info.kernel_name))
        useUname ==
            /\ distribution2 = "unknown"
            /\ ~EmptyDict(uname_info)
            /\ kernel_name \in {"darwin", "freebsd", "openbsd"}
        distribution3 ==
            CASE ~useUname -> distribution2
              [] kernel_name = "darwin" -> "macos"
              [] OTHER -> kernel_name
        version3 ==
            CASE ~useUname -> version2
              [] uname_info.kernel_release = None -> "unknown"
              [] OTHER -> ValueOf(uname_info.kernel_release)
        \* family of the first matching pattern (lines 219-222)
        matching == MatchingPatterns(distribution3)
        distribution == normalize_distribution_name(distribution3)
    IN  [os_family |-> IF matching = <<>> THEN "unknown"
                       ELSE matching[1].family,
         distribution |-> distribution,
         version |-> IF /\ distribution \in {"arch", "manjaro"}
                        /\ version3 = "unknown"
                     THEN "rolling"
                     ELSE version3]

\* the signals tried: each key is there or not
OptionalOf(v) == {None, Some(v)}

OsReleaseInfos ==
    [ID : OptionalOf("ubuntu"), NAME : OptionalOf("Arch Linux"),
     VERSION_ID : OptionalOf("22.04"), VERSION : OptionalOf("22.04.3 LTS")]

LsbInfos ==
    [Distributor_ID : OptionalOf("Debian"), Release : OptionalOf("12")]

\* _get_uname_info returns {} or a dict with all its keys
\* (os_detector.py:122-138)
UnameInfos ==
    {[kernel_name |-> None, kernel_release |-> None]}
    \cup [kernel_name : {Some("Linux"), Some("Darwin")},
          kernel_release : {Some("6.1.0")}]

InitParse ==
    /\ fnArgs \in [uname_info : UnameInfos, os_release_info : OsReleaseInfos,
                   lsb_info : LsbInfos]
    /\ fnResult = None
    /\ fnCalls = 0
    /\ FnAlone

\* detect_os calls _parse_os_info on the three signals
\* (os_detector.py:97-99)
ParseOsInfo ==
    /\ fnCalls = 0
    /\ fnResult' = Some(parse_os_info(fnArgs.uname_info,
                                      fnArgs.os_release_info,
                                      fnArgs.lsb_info))
    /\ fnCalls' = 1
    /\ UNCHANGED <<fnArgs, besidesFn>>

NextParse == ParseOsInfo

SpecParse == InitParse /\ [][NextParse]_vars

\* PACKAGE_MANAGERS in the order of the dict (os_detector.py:47-58)
PACKAGE_MANAGERS ==
    <<
      [name |-> "apt", commands |-> <<"/usr/bin/apt", "/usr/bin/apt-get">>],
      [name |-> "yum", commands |-> <<"/usr/bin/yum", "/bin/yum">>],
      [name |-> "dnf", commands |-> <<"/usr/bin/dnf", "/bin/dnf">>],
      [name |-> "zypper", commands |-> <<"/usr/bin/zypper">>],
      [name |-> "pacman", commands |-> <<"/usr/bin/pacman">>],
      [name |-> "apk", commands |-> <<"/sbin/apk">>],
      [name |-> "pkg", commands |-> <<"/usr/sbin/pkg">>],
      [name |-> "pkg_add", commands |-> <<"/usr/sbin/pkg_add">>],
      [name |-> "brew",
       commands |-> <<"/usr/local/bin/brew", "/opt/homebrew/bin/brew">>]
    >>

\* _check_package_manager_exists (os_detector.py:287-297): `test -x` exits 0
\* for one of the paths of the kind; executable is the set of paths for
\* which it does on the host
check_package_manager_exists(pm_name, executable) ==
    \E i \in 1..Len(PACKAGE_MANAGERS) :
        /\ PACKAGE_MANAGERS[i].name = pm_name
        /\ \E c \in 1..Len(PACKAGE_MANAGERS[i].commands) :
               PACKAGE_MANAGERS[i].commands[c] \in executable

\* _detect_package_manager returning the kind of the pattern without
\* looking for its binaries
detect_package_manager_unverified(distribution, executable) ==
    LET byPattern == MatchingPatterns(distribution)
        available ==
            SelectSeq(PACKAGE_MANAGERS,
                      LAMBDA pm :
                          check_package_manager_exists(pm.name, executable))
    IN  CASE byPattern # <<>> -> byPattern[1].default_pm
          [] available # <<>> -> available[1].name
          [] OTHER -> "unknown"

\* _detect_package_manager (os_detector.py:271-285): the kind of the first
\* matching pattern whose binary is there; else the first kind of
\* PACKAGE_MANAGERS whose binary is there; else "unknown"
detect_package_manager(distribution, executable) ==
    LET byPattern ==
            SelectSeq(MatchingPatterns(distribution),
                      LAMBDA p :
                          check_package_manager_exists(p.default_pm,
                                                       executable))
        available ==
            SelectSeq(PACKAGE_MANAGERS,
                      LAMBDA pm :
                          check_package_manager_exists(pm.name, executable))
    IN  CASE byPattern # <<>> -> byPattern[1].default_pm
          [] available # <<>> -> available[1].name
          [] OTHER -> "unknown"

\* every path the probe tests
CommandPaths ==
    UNION {{PACKAGE_MANAGERS[i].commands[c] :
                c \in 1..Len(PACKAGE_MANAGERS[i].commands)} :
           i \in 1..Len(PACKAGE_MANAGERS)}

\* the distributions tried, as _parse_os_info returns them
Distributions ==
    {"ubuntu", "linuxmint", "rhel", "fedora", "opensuse", "arch", "macos",
     "gentoo", "unknown"}

InitDetect ==
    /\ fnArgs \in [distribution : Distributions,
                   executable : {e \in SUBSET CommandPaths :
                                     Cardinality(e) <= MaxExecutable}]
    /\ fnResult = None
    /\ fnCalls = 0
    /\ FnAlone

\* detect_os calls _detect_package_manager on the distribution
\* (os_detector.py:102)
DetectPackageManager ==
    /\ fnCalls = 0
    /\ fnResult' = Some(detect_package_manager(fnArgs.distribution,
                                               fnArgs.executable))
    /\ fnCalls' = 1
    /\ UNCHANGED <<fnArgs, besidesFn>>

NextDetect == DetectPackageManager

SpecDetect == InitDetect /\ [][NextDetect]_vars

(***************************************************************************)
(* Marking security updates (package_managers.py:131-137, 237-262,         *)
(* 333-358)                                                                *)
(***************************************************************************)
\* the place of the first blank of s, or Len(s) + 1
FirstBlank(s) ==
    LET blanks == {i \in 1..Len(s) : SubSeq(s, i, i) = " "}
    IN  IF blanks = {} THEN Len(s) + 1
        ELSE CHOOSE i \in blanks : \A j \in blanks : i <= j

\* line.strip().split()[0], or "" when the line has no word
FirstWord(line) ==
    LET stripped == Strip(line)
    IN  SubSeq(stripped, 1, FirstBlank(stripped) - 1)

\* package_arch.rsplit('.', 1)[0] when it has a dot, else package_arch
\* (package_managers.py:250-253)
WithoutArch(package_arch) ==
    LET dots == {i \in 1..Len(package_arch) :
                    SubSeq(package_arch, i, i) = "."}
    IN  IF dots = {} THEN package_arch
        ELSE SubSeq(package_arch, 1,
                    (CHOOSE i \in dots : \A j \in dots : j <= i) - 1)

\* the names in the output of `yum --security check-update --quiet`
\* (package_managers.py:245-254); stdout is its lines
SecurityPackages(stdout) ==
    {WithoutArch(FirstWord(stdout[i])) :
        i \in {k \in 1..Len(stdout) : FirstWord(stdout[k]) # ""}}

\* Apt's test of one update (package_managers.py:133-136)
security_repos == <<"-security", "-updates">>
AptSecurity(update) ==
    \E i \in 1..Len(security_repos) :
        Contains(security_repos[i], update.repository)

\* _mark_security_updates that assigns the outcome of its test
mark_security_updates_assign(adapter, updates_, output) ==
    [i \in 1..Len(updates_) |->
        [updates_[i] EXCEPT !.security =
            IF adapter = "apt" THEN AptSecurity(updates_[i])
            ELSE /\ ~output.raised
                 /\ output.exit_code = 100
                 /\ updates_[i].name \in SecurityPackages(output.stdout)]]

\* _mark_security_updates of the Apt adapter (package_managers.py:131-137)
\* and of the Yum and Dnf adapters (lines 237-262, 333-358): security is set
\* to True on the updates that pass the test; with an exit code other than
\* 100 or an exception of the command nothing is marked
mark_security_updates(adapter, updates_, output) ==
    [i \in 1..Len(updates_) |->
        IF \/ adapter = "apt" /\ AptSecurity(updates_[i])
           \/ /\ adapter # "apt"
              /\ ~output.raised
              /\ output.exit_code = 100
              /\ updates_[i].name \in SecurityPackages(output.stdout)
        THEN [updates_[i] EXCEPT !.security = TRUE]
        ELSE updates_[i]]

\* the updates tried (package_managers.py:18-29)
PackageUpdates ==
    [name : {"openssl", "bash"}, current_version : {"1.0"},
     available_version : {"1.1"},
     repository : {"jammy-security", "jammy"}, security : BOOLEAN,
     description : {""}]

MarkedLists == UNION {[1..n -> PackageUpdates] : n \in 0..MaxMarked}

\* what the remote command of the marker gives
MarkerOutputs ==
    [raised : {FALSE}, exit_code : {0, 100},
     stdout : {<<"">>, <<"openssl.x86_64  1.1  updates">>,
               <<" bash.x86_64 1.1 updates", "openssl-libs.i686 1.1 base">>}]
    \cup {[raised |-> TRUE, exit_code |-> 0, stdout |-> <<"">>]}

InitMark ==
    /\ fnArgs \in [adapter : {"apt", "yum", "dnf"}, updates : MarkedLists,
                   output : MarkerOutputs]
    /\ fnResult = None
    /\ fnCalls = 0
    /\ FnAlone

\* the list as the marker left it, the list given before the first call
MarkedSoFar ==
    IF fnResult = None THEN <<fnArgs.updates>>
    ELSE <<fnArgs.updates>> \o ValueOf(fnResult)

\* the marker applied, once and once more, to the list it changes in place
MarkSecurityUpdates ==
    /\ fnCalls < 2
    /\ fnResult' =
          Some(Tail(MarkedSoFar)
               \o <<mark_security_updates(fnArgs.adapter,
                                          MarkedSoFar[Len(MarkedSoFar)],
                                          fnArgs.output)>>)
    /\ fnCalls' = fnCalls + 1
    /\ UNCHANGED <<fnArgs, besidesFn>>

NextMark == MarkSecurityUpdates

SpecMark == InitMark /\ [][NextMark]_vars

(***************************************************************************)
(* check_updates of the adapters and their parsers                         *)
(* (package_managers.py:79-129, 179-235, 304-331, 400-435, 483-531,        *)
(* 572-627)                                                                *)
(***************************************************************************)
\* s[a-1:b] of Python, with the places counted from 1
Slice(s, a, b) ==
    IF a > b \/ a > Len(s) THEN ""
    ELSE SubSeq(s, IF a < 1 THEN 1 ELSE a, IF b > Len(s) THEN Len(s) ELSE b)

\* str.find, counted from 1; 0 when sub is not in s
Find(sub, s) ==
    LET at == {i \in 1..(Len(s) - Len(sub) + 1) :
                  SubSeq(s, i, i + Len(sub) - 1) = sub}
    IN  IF at = {} THEN 0 ELSE CHOOSE i \in at : \A j \in at : i <= j

\* str.rfind, counted from 1; 0 when sub is not in s
RFind(sub, s) ==
    LET at == {i \in 1..(Len(s) - Len(sub) + 1) :
                  SubSeq(s, i, i + Len(sub) - 1) = sub}
    IN  IF at = {} THEN 0 ELSE CHOOSE i \in at : \A j \in at : j <= i

\* s.split(sep)
RECURSIVE SplitOn(_, _)
SplitOn(sep, s) ==
    IF Find(sep, s) = 0 THEN <<s>>
    ELSE <<Slice(s, 1, Find(sep, s) - 1)>>
         \o SplitOn(sep, Slice(s, Find(sep, s) + Len(sep), Len(s)))

\* s.split() of one line
Words(s) == SelectSeq(SplitOn(" ", s), LAMBDA w : w # "")

\* s.startswith(prefix)
StartsWith(prefix, s) == Slice(s, 1, Len(prefix)) = prefix

\* PackageUpdate(...) as the parsers build it (package_managers.py:21-29)
PackageUpdate(name, current_version, available_version, repository) ==
    [name |-> name, current_version |-> current_version,
     available_version |-> available_version, repository |-> repository,
     security |-> FALSE, description |-> ""]

\* one turn of the loop of AptPackageManager.check_updates with
\* _parse_apt_line (package_managers.py:95-129): the line must be
\* name/repository, blanks, version, blanks, architecture; the old version
\* is read from "[upgradable from: ...]" when that follows
AptLine(line) ==
    LET slash == Find("/", line)
        rest == Slice(line, slash + 1, Len(line))
        words == Words(rest)
        from == Find(" [upgradable from: ", rest)
        old == Strip(Slice(rest, from + Len(" [upgradable from: "),
                            Len(rest)))
        close == Find("]", old)
    IN  CASE Strip(line) = "" \/ Contains("Listing...", line) -> <<>>
          [] slash <= 1 -> <<>>
          [] rest = "" \/ Slice(rest, 1, 1) \in Whitespace -> <<>>
          [] Len(words) < 3 -> <<>>
          [] OTHER ->
                <<PackageUpdate(
                    Slice(line, 1, slash - 1),
                    IF /\ Len(words) >= 6
                       /\ words[4] = "[upgradable" /\ words[5] = "from:"
                       /\ from # 0 /\ close >= 2
                    THEN Slice(old, 1, close - 1)
                    ELSE "unknown",
                    words[2],
                    words[1])>>

\* one turn of the loop of _parse_yum_output (package_managers.py:207-233),
\* which _parse_dnf_output calls too (lines 328-331)
YumLine(raw) ==
    LET line == Strip(raw)
        parts == Words(line)
    IN  CASE \/ line = ""
             \/ StartsWith("Loaded plugins", line)
             \/ StartsWith("Loading mirror", line) -> <<>>
          [] Len(parts) < 3 -> <<>>
          [] OTHER ->
                <<PackageUpdate(WithoutArch(parts[1]), "installed", parts[2],
                                parts[3])>>

\* one turn of the loop of _parse_zypper_output
\* (package_managers.py:419-433)
ZypperLine(line) ==
    LET split == SplitOn("|", line)
        parts == [i \in 1..Len(split) |-> Strip(split[i])]
    IN  CASE ~StartsWith("v |", line) -> <<>>
          [] Len(parts) < 5 -> <<>>
          [] OTHER ->
                <<PackageUpdate(parts[3], parts[4], parts[5],
                                IF Len(parts) > 5 THEN parts[2] ELSE "")>>

\* one turn of the loop of _parse_pacman_output
\* (package_managers.py:508-529)
PacmanLine(line) ==
    LET parts == SplitOn("->", line)
        left_part == Strip(parts[1])
        name_version == Words(left_part)
    IN  CASE ~Contains("->", line) -> <<>>
          [] Len(parts) # 2 -> <<>>
          [] OTHER ->
                <<PackageUpdate(
                    IF Len(name_version) >= 2 THEN name_version[1]
                    ELSE left_part,
                    IF Len(name_version) >= 2 THEN name_version[2]
                    ELSE "unknown",
                    Strip(parts[2]),
                    "")>>

\* one turn of the loop of _parse_pkg_output (package_managers.py:598-625)
PkgLine(raw) ==
    LET line == Strip(raw)
        parts == SplitOn("<", line)
        left_part == Strip(parts[1])
        right_part == Strip(parts[2])
        last_dash == RFind("-", left_part)
        has == Find("port has ", right_part)
        after == Slice(right_part, has + Len("port has "), Len(right_part))
        paren == Find(")", after)
        version == IF paren = 0 THEN after ELSE Slice(after, 1, paren - 1)
    IN  CASE line = "" -> <<>>
          [] ~(Contains("<", line) /\ Contains("needs updating", line)) ->
                <<>>
          [] OTHER ->
                <<PackageUpdate(
                    IF last_dash # 0 THEN Slice(left_part, 1, last_dash - 1)
                    ELSE left_part,
                    IF last_dash # 0
                    THEN Slice(left_part, last_dash + 1, Len(left_part))
                    ELSE "unknown",
                    IF has # 0 /\ version # "" THEN version ELSE "unknown",
                    "ports")>>

\* the records one line gives: none or one
ParseLine(kind, line) ==
    CASE kind = "apt" -> AptLine(line)
      [] kind \in {"yum", "dnf"} -> YumLine(line)
      [] kind = "zypper" -> ZypperLine(line)
      [] kind = "pacman" -> PacmanLine(line)
      [] OTHER -> PkgLine(line)

\* the loop over the lines: `updates` grows by what each line gives
RECURSIVE ParseLines(_, _, _)
ParseLines(kind, lines, updates_) ==
    IF lines = <<>> THEN updates_
    ELSE ParseLines(kind, Tail(lines),
                    updates_ \o ParseLine(kind, Head(lines)))

\* a parser that reads the first line of the output only
parse_output_firstLine(kind, output) ==
    ParseLines(kind, <<Head(SplitOn("\n", Strip(output)))>>, <<>>)

\* `for line in output.strip().split('\n')` of every parser
parse_output(kind, output) ==
    ParseLines(kind, SplitOn("\n", Strip(output)), <<>>)

\* check_updates of the six adapters: the command raised, or gave an exit
\* code and its output; `marker` is what the command of the security marker
\* gives.  Every body is inside try/except Exception and returns `updates`
\* (package_managers.py:83-109, 183-201, 308-326, 404-417, 487-502, 576-592)
check_updates(kind, command, marker) ==
    CASE command.raised -> <<>>
      [] kind = "apt" ->
            IF command.exit_code # 0 THEN <<>>
            ELSE mark_security_updates(kind,
                                       parse_output(kind, command.stdout),
                                       marker)
      [] kind \in {"yum", "dnf"} ->
            IF command.exit_code = 100
            THEN mark_security_updates(kind,
                                       parse_output(kind, command.stdout),
                                       marker)
            ELSE <<>>
      [] kind = "pacman" ->
            IF command.exit_code = 0
            THEN parse_output(kind, command.stdout)
            ELSE <<>>
      [] OTHER ->
            IF command.exit_code # 0 THEN <<>>
            ELSE parse_output(kind, command.stdout)

\* the kinds with an adapter (package_managers.py:668-675)
AdapterKinds == {"apt", "yum", "dnf", "zypper", "pacman", "pkg"}

\* lines tried as the output of the command of each kind: lines of the
\* kind's format, lines that are not, and a blank one
OutputLines(kind) ==
    {" "} \cup
    CASE kind = "apt" ->
            {"Listing...",
             "openssl/jammy-security 3.0.2 amd64 [upgradable from: 3.0.1]",
             "bash/jammy 5.1 amd64", "N: skipped"}
      [] kind \in {"yum", "dnf"} ->
            {"Loaded plugins: fastestmirror", "openssl.x86_64 1.1 updates",
             "Obsoleting Packages", " bash.x86_64  5.1  base"}
      [] kind = "zypper" ->
            {"S | Repository | Name | Current | Available | Arch",
             "v | repo-oss | bash | 5.0 | 5.1 | x86_64",
             "v | bash | 5.0 | 5.1", "--+-----"}
      [] kind = "pacman" ->
            {"bash 5.0 -> 5.1", "openssl -> 1.1", ":: Starting",
             "a -> b -> c"}
      [] OTHER ->
            {"bash-5.0 < needs updating (port has 5.1)",
             "curl-8.0 = up-to-date with port",
             "zsh < needs updating", "pkg: error"}

\* '\n'.join(lines)
RECURSIVE JoinLines(_)
JoinLines(lines) ==
    CASE lines = <<>> -> ""
      [] Len(lines) = 1 -> lines[1]
      [] OTHER -> lines[1] \o "\n" \o JoinLines(Tail(lines))

\* what execute_command gives check_updates: an exception, or an exit code
\* and the output; the exit codes the adapters tell apart and one other
CommandResults(lines) ==
    [raised : {FALSE}, exit_code : {0, 1, 100}, stdout : {JoinLines(lines)}]
    \cup {[raised |-> TRUE, exit_code |-> 0, stdout |-> ""]}

\* what the command of the security marker gives in these runs
CheckMarkerOutputs ==
    {[raised |-> TRUE, exit_code |-> 0, stdout |-> <<"">>],
     [raised |-> FALSE, exit_code |-> 100,
      stdout |-> <<"openssl.x86_64  1.1  updates">>]}

InitCheck ==
    /\ \E kind \in AdapterKinds :
        \E lines \in UNION {[1..n -> OutputLines(kind)] : n \in 0..MaxLines} :
            \E command \in CommandResults(lines) :
                \E marker \in CheckMarkerOutputs :
                    fnArgs = [kind |-> kind, lines |-> lines,
                              command |-> command, marker |-> marker]
    /\ fnResult = None
    /\ fnCalls = 0
    /\ FnAlone

\* the lists check_updates returned so far
CheckedSoFar == IF fnResult = None THEN <<>> ELSE ValueOf(fnResult)

\* check_updates called, once and once more, on the same output
\* (update_automator.py:185; main.py:65)
CheckUpdatesCall ==
    /\ fnCalls < 2
    /\ fnResult' = Some(Append(CheckedSoFar,
                               check_updates(fnArgs.kind, fnArgs.command,
                                             fnArgs.marker)))
    /\ fnCalls' = fnCalls + 1
    /\ UNCHANGED <<fnArgs, besidesFn>>

NextCheck == CheckUpdatesCall

SpecCheck == InitCheck /\ [][NextCheck]_vars

(***************************************************************************)
(* The availability wait as _handle_reboot_and_verification calls it       *)
(* (update_automator.py:377-417)                                           *)
(***************************************************************************)
\* the keys of the [updates] section the step could read
\* (config.py:176-177): each is given or left out
UpdateConfigs ==
    [ping_timeout : {None} \cup {Some(t) : t \in 1..MaxProbeWait},
     ping_interval : {None} \cup {Some(i) : i \in 1..MaxPingInterval}]

\* the arguments of wait_for_host_availability
\* (update_automator.py:381, 415-417): max_wait_time is the ping_timeout of
\* the configuration, check_interval is the literal 5; the cycles that fail
\* are time.sleep(check_interval) apart (host_checker.py:77, 92)
availability_wait_arguments(update_config) ==
    [max_wait_time |-> IF update_config.ping_timeout = None THEN ping_timeout
                       ELSE ValueOf(update_config.ping_timeout),
     check_interval |-> check_interval,
     use_ssh |-> TRUE]

InitInterval ==
    /\ fnArgs \in UpdateConfigs
    /\ fnResult = None
    /\ fnCalls = 0
    /\ FnAlone

\* _handle_reboot_and_verification reaches the availability wait
WaitForAvailabilityCall ==
    /\ fnCalls = 0
    /\ fnResult' = Some(availability_wait_arguments(fnArgs))
    /\ fnCalls' = 1
    /\ UNCHANGED <<fnArgs, besidesFn>>

NextInterval == WaitForAvailabilityCall

SpecInterval == InitInterval /\ [][NextInterval]_vars

(***************************************************************************)
(* reboot_host_via_ssh and the branch that reads its result                *)
(* (host_checker.py:120-152; update_automator.py:383-412)                  *)
(***************************************************************************)
\* how connect_to_host ends: a connection, None (ssh_manager.py:157-174), or
\* an exception inside the `with` block
RebootConnects == {"connected", "none", "raised"}

\* what happens to `shutdown -r now || reboot`: it exits with 0 or another
\* code, runs into its 5 s timeout, or the connection drops under it
RebootCommands == {"exit_0", "exit_nonzero", "timeout", "dropped"}

\* execute_command on a connected shell (ssh_manager.py:114-127): the exit
\* code of the command, or -1 for any exception of the transport
RebootExitCode(command) ==
    CASE command = "exit_0" -> 0
      [] command = "exit_nonzero" -> 1
      [] OTHER -> 0 - 1

\* reboot_host_via_ssh returning whether the command exited with 0
reboot_host_via_ssh_exitCode(connect_, command) ==
    [sent |-> connect_ = "connected",
     returned |-> connect_ = "connected" /\ RebootExitCode(command) = 0]

\* reboot_host_via_ssh (host_checker.py:120-152): False without a
\* connection (lines 134-136) and on an exception (150-152); with one, the
\* command is sent, its exit code is not looked at, and True is returned
\* (lines 141-148)
reboot_host_via_ssh(connect_, command) ==
    [sent |-> connect_ = "connected",
     returned |-> connect_ = "connected"]

\* the branch of _handle_reboot_and_verification on the result
\* (update_automator.py:385-412): a rollback when a snapshot is available,
\* else FAILED_REBOOT; "wait" when the step goes on to the availability wait
AfterReboot(returned, snapshot_available, revert_ok) ==
    CASE returned -> "wait"
      [] snapshot_available /\ revert_ok -> "REVERTED"
      [] snapshot_available -> "REVERT_FAILED"
      [] OTHER -> "FAILED_REBOOT"

InitReboot ==
    /\ fnArgs \in [connect : RebootConnects, command : RebootCommands,
                   snapshot_name : {None, Some(SnapshotName(0))},
                   proxmox_client : BOOLEAN, vm_mapping : BOOLEAN,
                   revert_ok : BOOLEAN]
    /\ fnResult = None
    /\ fnCalls = 0
    /\ FnAlone

\* the reboot of _handle_reboot_and_verification
RebootStep ==
    /\ fnCalls = 0
    /\ LET reboot == reboot_host_via_ssh(fnArgs.connect, fnArgs.command)
       IN  fnResult' =
               Some([sent |-> reboot.sent,
                     returned |-> reboot.returned,
                     result |->
                         AfterReboot(reboot.returned,
                                     /\ fnArgs.snapshot_name # None
                                     /\ fnArgs.proxmox_client
                                     /\ fnArgs.vm_mapping,
                                     fnArgs.revert_ok)])
    /\ fnCalls' = 1
    /\ UNCHANGED <<fnArgs, besidesFn>>

NextReboot == RebootStep

SpecReboot == InitReboot /\ [][NextReboot]_vars

(***************************************************************************)
(* Termination: the host pass together with _api_request against a server  *)
(* that issues a ticket whenever it is asked and may let every ticket      *)
(* expire at once (update_automator.py:93-310, proxmox_client.py:67-139)   *)
(***************************************************************************)
\* authenticate: the POST to /access/ticket (proxmox_client.py:69-78); the
\* server answers 200 with a new ticket as often as it is asked, or
\* anything else, which makes authenticate return False and _api_request
\* raise (proxmox_client.py:88-95, 102-103, 127-128)
AuthPostAny(t) ==
    /\ apiPc[t] = "auth_post"
    /\ apiReauths' = [apiReauths EXCEPT
                        ![t] = @ + (IF apiFrom[t] = "401" THEN 1 ELSE 0)]
    /\ expiryAuths' = expiryAuths + (IF apiFrom[t] = "401" THEN 1 ELSE 0)
    /\ \E ok \in BOOLEAN :
        IF ok
        THEN /\ issued' = issued + 1
             /\ valid' = valid \cup {issued + 1}
             /\ apiData' = [apiData EXCEPT ![t] = issued + 1]
             /\ apiPc' = [apiPc EXCEPT ![t] = "auth_ticket"]
        ELSE /\ apiPc' = [apiPc EXCEPT ![t] = "raised"]
             /\ UNCHANGED <<issued, valid, apiData>>
    /\ UNCHANGED <<clientTicket, clientCsrf, sessionHeader, sessionCookie,
                   apiFrom, apiSent, besidesApi>>

\* the nested call goes on for ever: no RecursionError, the depth is not
\* kept and the server numbers its tickets from 1 again
ApiRecurse_unlimited(t) ==
    /\ apiPc[t] = "auth_cookie"
    /\ sessionCookie' = clientTicket
    /\ apiPc' = [apiPc EXCEPT ![t] = IF apiFrom[t] = "401" THEN "entry"
                                     ELSE "send"]
    /\ apiReauths' = [apiReauths EXCEPT ![t] = 0]
    /\ issued' = 1
    /\ valid' = valid \cap {1}
    /\ UNCHANGED <<clientTicket, clientCsrf, sessionHeader, apiData, apiFrom,
                   apiSent, expiryAuths, besidesApi>>

\* session.cookies.set("PVEAuthCookie", self.ticket) and return True
\* (proxmox_client.py:84-87); the caller goes on to its request
\* (proxmox_client.py:105), or, after a 401, calls _api_request inside
\* itself (proxmox_client.py:129): nothing in the code counts these calls,
\* the interpreter ends them with a RecursionError, which no handler of
\* _api_request catches (proxmox_client.py:138)
ApiRecurse(t) ==
    /\ apiPc[t] = "auth_cookie"
    /\ sessionCookie' = clientTicket
    /\ apiPc' = [apiPc EXCEPT
                   ![t] = IF apiFrom[t] # "401" THEN "send"
                          ELSE IF apiReauths[t] < MaxRecursion THEN "entry"
                          ELSE "raised"]
    /\ UNCHANGED <<clientTicket, clientCsrf, sessionHeader, issued, valid,
                   apiData, apiFrom, apiReauths, apiSent, expiryAuths,
                   besidesApi>>

NextRequest ==
    \/ \E t \in Threads : ApiEnter(t)
    \/ \E t \in Threads : AuthPostAny(t)
    \/ \E t \in Threads : AuthStoreTicket(t)
    \/ \E t \in Threads : AuthStoreCsrf(t)
    \/ \E t \in Threads : AuthSetHeader(t)
    \/ \E t \in Threads : ApiRecurse(t)
    \/ \E t \in Threads : ApiSend(t)
    \/ TicketsExpire

\* one thread calls _api_request
InitRequest == InitApi /\ apiPc["t2"] = "unused"

\* a host pass, or a call of _api_request
InitLive == Init \/ InitRequest

NextLive == Next \/ NextRequest

\* every step of the program that can be taken is taken in the end: each
\* remote command, HTTP call, ping and sleep returns
SpecLive == InitLive /\ [][NextLive]_vars /\ WF_vars(NextLive)

(***************************************************************************)
(* Reading the call log and the report                                     *)
(***************************************************************************)
\* positions of the log where op ended with res
Idx(op, res) == {i \in 1..Len(calls) : calls[i].op = op /\ calls[i].res = res}
\* positions of the log that belong to op
IdxOp(op) == {i \in 1..Len(calls) : calls[i].op = op}
\* the pass returned
Returned == pc = "done"
\* the pass returned a report with this result
ReturnedWith(result) ==
    pc = "done" /\ Len(reports) = 1 /\ reports[1].result = result

(***************************************************************************)
(* Rollback policy                                                         *)
(***************************************************************************)
\* C1: whenever _create_snapshot returned a snapshot name and the pass ends
\* with a result other than SUCCESS, _revert_snapshot was invoked for that
\* snapshot before the report was returned.
C1_RollbackAfterSnapshot ==
    (/\ Returned
     /\ Idx("_create_snapshot", "ok") # {}
     /\ ~ReturnedWith("SUCCESS"))
    => \E i \in Idx("_create_snapshot", "ok"),
          j \in Idx("_revert_snapshot", "call") :
            i < j /\ calls[j].arg = calls[i].arg

\* C2: a pass that returned has produced exactly one report, for the host it
\* was given, and a pass that has not returned has produced none.
C2_ExactlyOneReport ==
    /\ Returned => Len(reports) = 1 /\ reports[1].host = host
    /\ ~Returned => reports = <<>>

\* C2 witness: the pass returned through the exception handler
C2_Witness ==
    /\ Returned
    /\ Len(reports) = 1
    /\ reports[1].host = host
    /\ reports[1].error_details = <<"Unexpected error">>

\* C3: a report with result SUCCESS is produced only after apply_updates
\* returned success and, when reboot_after_updates is enabled, after the
\* reboot was dispatched and wait_for_host_availability returned true.
C3_SuccessImpliesApplied ==
    ReturnedWith("SUCCESS") =>
        \E a \in Idx("apply_updates", "ok") :
            config.reboot_after_updates =>
                \E b \in Idx("reboot_host_via_ssh", "ok"),
                   w \in Idx("wait_for_host_availability", "ok") :
                    a < b /\ b < w

\* C3 witness: SUCCESS with the reboot enabled
C3_Witness ==
    /\ ReturnedWith("SUCCESS")
    /\ config.reboot_after_updates
    /\ Idx("wait_for_host_availability", "ok") # {}

\* C4: a report with result REVERTED is produced only when a snapshot was
\* created before apply_updates was invoked and the rollback of that snapshot
\* returned success: the request was accepted and, when it started a task,
\* the task ended with exit status OK.
C4_RevertedImpliesRollbackOk ==
    ReturnedWith("REVERTED") =>
        /\ \E c \in Idx("_create_snapshot", "ok"),
              a \in Idx("apply_updates", "call"),
              r \in Idx("_revert_snapshot", "ok") :
                /\ c < a /\ a < r
                /\ calls[r].arg = calls[c].arg
                /\ reports[1].snapshot_name = calls[c].arg
        /\ hvCreated
        /\ hvTask.kind = "rollback" => hvTask.status = "OK"

\* C4 witness: REVERTED after a rollback task that was waited for
C4_Witness ==
    /\ ReturnedWith("REVERTED")
    /\ hvTask.kind = "rollback"

\* C5: a report with result REVERT_FAILED is produced only when a snapshot
\* existed, its rollback was attempted and the rollback returned failure.
C5_RevertFailedImpliesAttempt ==
    ReturnedWith("REVERT_FAILED") =>
        /\ \E c \in Idx("_create_snapshot", "ok"),
              r \in Idx("_revert_snapshot", "call"),
              f \in Idx("_revert_snapshot", "fail") :
                /\ c < r /\ r < f
                /\ calls[r].arg = calls[c].arg
        /\ Idx("_revert_snapshot", "ok") = {}
        /\ reports[1].snapshot_name # None

\* C5 witness: REVERT_FAILED after the host did not come back
C5_Witness ==
    /\ ReturnedWith("REVERT_FAILED")
    /\ revertSite = "availability"

\* C6: a report with result OPT_OUT is produced only in a pass that invoked
\* neither apply_updates nor the snapshot creation nor the reboot, and it
\* carries exactly the list of updates check_updates returned.
C6_OptOutTouchesNothing ==
    ReturnedWith("OPT_OUT") =>
        /\ IdxOp("apply_updates") = {}
        /\ IdxOp("_create_snapshot") = {}
        /\ IdxOp("reboot_host_via_ssh") = {}
        /\ ~hvCreated
        /\ Idx("check_updates", "ok") # {}
        /\ reports[1].update_report.updates = updates

\* C6 witness: an opted-out host with a VM mapping and updates available
C6_Witness ==
    /\ ReturnedWith("OPT_OUT")
    /\ host \in config.opt_out_hosts
    /\ config.apply_updates
    /\ vm_mapping # None
    /\ updates # <<>>

\* C7: the snapshot_name of every report is non-empty exactly when the
\* hypervisor created the snapshot of this run.
C7_SnapshotNameIffCreated ==
    \A i \in 1..Len(reports) :
        (reports[i].snapshot_name # None) <=> hvCreated

\* C8 (as claimed): with apply_updates false every pass that returned ended
\* with OPT_OUT.
C8_ApplyDisabledAlwaysOptOut ==
    (Returned /\ ~config.apply_updates) => ReturnedWith("OPT_OUT")

\* C8 (amended): with apply_updates false a pass that invoked check_updates
\* ends with OPT_OUT, a pass that failed before it ends with FAILED_UPDATES,
\* and neither apply_updates nor the snapshot creation is invoked.
C8_ApplyDisabledOptOutOrFailed ==
    (Returned /\ ~config.apply_updates) =>
        /\ IF IdxOp("check_updates") # {}
           THEN ReturnedWith("OPT_OUT")
           ELSE ReturnedWith("FAILED_UPDATES")
        /\ IdxOp("apply_updates") = {}
        /\ IdxOp("_create_snapshot") = {}

\* C8 witness: apply_updates false, the host not in the opt-out list, updates
\* available
C8_Witness ==
    /\ ReturnedWith("OPT_OUT")
    /\ ~config.apply_updates
    /\ host \notin config.opt_out_hosts
    /\ updates # <<>>

\* the refresh attempts made before check_updates
RefreshAttempts ==
    {i \in IdxOp("refresh_cache") :
        \A k \in IdxOp("check_updates") : i < k}
FailedRefreshAttempts ==
    {i \in RefreshAttempts : calls[i].res = "fail"}

\* C9: refresh_cache is invoked at most 3 times before check_updates, never
\* again after a success, with 5 s slept after each failed attempt but the
\* last; after 3 failures the pass ends with FAILED_UPDATES and has invoked
\* neither check_updates nor the snapshot creation nor apply_updates.
C9_RefreshRetry ==
    /\ Cardinality(RefreshAttempts) <= max_retries
    /\ \A i, j \in RefreshAttempts : i < j => calls[i].res = "fail"
    /\ IdxOp("check_updates") # {} =>
            \E i \in RefreshAttempts : calls[i].res = "ok"
    /\ slept = REFRESH_BACKOFF *
               (IF Cardinality(FailedRefreshAttempts) < max_retries
                THEN Cardinality(FailedRefreshAttempts)
                ELSE max_retries - 1)
    /\ Cardinality(FailedRefreshAttempts) = max_retries =>
            /\ ReturnedWith("FAILED_UPDATES")
            /\ IdxOp("check_updates") = {}
            /\ IdxOp("_create_snapshot") = {}
            /\ IdxOp("apply_updates") = {}

\* C9 witness: three failed refresh attempts
C9_Witness ==
    /\ Cardinality(FailedRefreshAttempts) = max_retries
    /\ Returned

\* C10: when the hypervisor is configured and the host has a VM mapping,
\* apply_updates is invoked only after the snapshot creation returned the
\* name; _revert_snapshot is invoked only after apply_updates was invoked.
C10_SnapshotBeforeApplyBeforeRollback ==
    /\ \A a \in Idx("apply_updates", "call") :
            (config.proxmox /\ host \in config.mappings) =>
                \E c \in Idx("_create_snapshot", "ok") :
                    c < a /\ hvCreated
    /\ \A r \in IdxOp("_revert_snapshot") :
            \E a \in Idx("apply_updates", "call") : a < r

\* C10 witness: a rollback was started after apply_updates failed
C10_Witness ==
    /\ pc = "revert_request"
    /\ revertSite = "apply"
    /\ Idx("_create_snapshot", "ok") # {}

(***************************************************************************)
(* Reboot policy                                                           *)
(***************************************************************************)
\* reboot_host_via_ssh was invoked by the pass: it is running, holds its
\* shell, or has returned
RebootDispatched ==
    \/ pc \in {"reboot_connect", "reboot_send"}
    \/ "reboot" \in openShells
    \/ IdxOp("reboot_host_via_ssh") # {}

\* C11: a reboot of the host is dispatched only in passes where apply_updates
\* was invoked and returned success and reboot_after_updates is enabled; a
\* pass that ends in OPT_OUT, NO_UPDATES or FAILED_SNAPSHOT, or whose
\* apply_updates failed, never dispatches a reboot.
C11_RebootOnlyAfterApply ==
    /\ RebootDispatched =>
            /\ config.reboot_after_updates
            /\ Idx("apply_updates", "ok") # {}
            /\ \A r \in IdxOp("reboot_host_via_ssh") :
                    \E a \in Idx("apply_updates", "ok") : a < r
    /\ (\/ ReturnedWith("OPT_OUT")
        \/ ReturnedWith("NO_UPDATES")
        \/ ReturnedWith("FAILED_SNAPSHOT")
        \/ Idx("apply_updates", "fail") # {}) => ~RebootDispatched

\* C11 witness: the reboot command was sent after a successful apply
C11_Witness ==
    /\ Idx("reboot_host_via_ssh", "ok") # {}
    /\ Idx("apply_updates", "ok") # {}
    /\ config.reboot_after_updates

(***************************************************************************)
(* Snapshot retention                                                      *)
(***************************************************************************)
\* the sweeps of _cleanup_old_snapshots in the log that got their list
Sweeps == {i \in IdxOp("_cleanup_old_snapshots") : calls[i].arg # None}
\* datetime.now() of a sweep and the names it called delete_snapshot for
SweepOf(i) == CHOOSE a \in calls[i].arg : TRUE
\* the name has the form {prefix}-{YYYYMMDD-HHMMSS}
WellFormedName(n) ==
    n.pre = snapshot_name_prefix /\ n.sep = "-" /\ n.ts # BadTimestamp

\* C12: _cleanup_old_snapshots calls delete_snapshot only for snapshots whose
\* name begins with the configured prefix and whose embedded timestamp is
\* strictly older than now minus snapshot_retention_days; a snapshot without
\* the prefix, or one not older than the cutoff, is never deleted, whatever
\* list of snapshots the hypervisor returns.
C12_DeleteOnlyOldPrefixed ==
    \A i \in Sweeps :
        \A n \in SweepOf(i).deleted :
            /\ n.pre = snapshot_name_prefix
            /\ n.ts # BadTimestamp
            /\ n.ts < SweepOf(i).now - snapshot_retention_days

\* C12 witness: a sweep deleted an old automated snapshot while the VM also
\* had a snapshot without the prefix and one exactly at the cutoff
C12_Witness ==
    \E i \in Sweeps :
        /\ [pre |-> snapshot_name_prefix, sep |-> "-", ts |-> 1]
                \in SweepOf(i).deleted
        /\ SweepOf(i).now = start_time
        /\ [pre |-> "manual-snap", sep |-> "-", ts |-> 1] \in hvSnapshots
        /\ [pre |-> snapshot_name_prefix, sep |-> "-", ts |-> 3]
                \in hvSnapshots

\* C13: a snapshot whose name is not exactly of the form
\* {prefix}-{YYYYMMDD-HHMMSS} is skipped by _cleanup_old_snapshots and never
\* deleted.
C13_MalformedNeverDeleted ==
    \A i \in Sweeps : \A n \in SweepOf(i).deleted : WellFormedName(n)

(***************************************************************************)
(* Remote shells of a pass                                                 *)
(***************************************************************************)
\* C16: at every instant of a host pass at most one connected SSHConnection
\* opened by that pass exists, also while the reboot is dispatched and while
\* availability is probed.
C16_AtMostOneShell == Cardinality(openShells) <= 1

(***************************************************************************)
(* The dispatcher                                                          *)
(***************************************************************************)
\* C14: the dispatcher never has more than `parallel` host passes executing
\* at the same time, whatever the number of hosts and the order in which
\* passes complete.
C14_AtMostParallelRunning == Cardinality(running) <= parallel

\* C14 witness: every worker is busy and a host is still waiting
C14_Witness ==
    /\ parallel = MaxParallel
    /\ Cardinality(running) = parallel
    /\ workQueue # <<>>

\* the positions of the result list that hold the report of host h
ReportsOf(h) == {i \in 1..Len(checkReports) : checkReports[i].host = h}

\* C15: the result list of the dispatcher holds exactly one report for every
\* input host, in any completion order, and a failed pass gives an error
\* report for its own host only: every report in the list is the one the
\* pass of its host returned.
C15_OneReportPerHost ==
    /\ \A h \in 1..Len(hosts) : Cardinality(ReportsOf(h)) <= 1
    /\ \A i \in 1..Len(checkReports) :
            /\ checkReports[i].host \in DOMAIN futures
            /\ checkReports[i] = futures[checkReports[i].host]
    /\ mainPc = "done" =>
            \A h \in 1..Len(hosts) :
                /\ Cardinality(ReportsOf(h)) = 1
                /\ h \in DOMAIN futures

\* C15 witness: all reports are in, in another order than the inventory's,
\* one of them an error report
C15_Witness ==
    /\ mainPc = "done"
    /\ Len(hosts) = NumHosts
    /\ checkReports[1].host = 2
    /\ checkReports[1].error = "None"
    /\ \E i \in 1..Len(checkReports) : /\ checkReports[i].host = 1
                                       /\ checkReports[i].error = "str(e)"

(***************************************************************************)
(* Re-authentication of the Proxmox client                                 *)
(***************************************************************************)
\* C17: in one call of _api_request a 401 response causes at most one
\* re-authentication and one retry of the request; a second 401 makes the
\* call fail instead of re-authenticating again.
C17_AtMostOneReauth == \A t \in Threads : apiReauths[t] <= 1

\* C18: when several passes use the same client and its ticket expires,
\* authenticate is executed only once per expiry, and no request is sent
\* with a ticket and a CSRF token taken from two different authentications.
C18_ReauthSerialized ==
    /\ expiryAuths <= 1
    /\ \A t \in Threads : apiSent[t][1] = apiSent[t][2]

(***************************************************************************)
(* wait_for_task                                                           *)
(***************************************************************************)
\* the polls that were answered with this answer
PollsWith(answer) == {i \in 1..Len(polls) : polls[i].answer = answer}
\* wait_for_task returned this result
WaitReturnedWith(result) == waitPc = "returned" /\ waitResult = result

\* what C19 says besides the time of the deciding poll: a poll that reports
\* "stopped" ends the wait at once, with true for exit status OK and false
\* for any other; without such a poll the wait returns false, and only when
\* the timeout has elapsed; so a poll that raised decides nothing
WaitDecidedByPolls ==
    /\ \A i \in PollsWith("stopped_OK") :
            i = Len(polls) /\ WaitReturnedWith("true")
    /\ \A i \in PollsWith("stopped_other") :
            i = Len(polls) /\ WaitReturnedWith("false")
    /\ (/\ waitPc = "returned"
        /\ PollsWith("stopped_OK") \cup PollsWith("stopped_other") = {})
            => waitResult = "false" /\ waitClock >= waitTimeout

\* C19 as stated: wait_for_task returns true if and only if a status poll
\* reported "stopped" with exit status OK before the timeout elapsed; it
\* returns false as soon as a poll reports "stopped" with another exit
\* status, and false when the timeout elapses; a poll that raises is retried
\* and gives no result by itself.
C19_TrueIffOkReportedBeforeTimeout ==
    /\ waitPc = "returned" =>
            (waitResult = "true" <=>
                \E i \in PollsWith("stopped_OK") :
                    polls[i].reported < waitTimeout)
    /\ WaitDecidedByPolls

\* C19 amended: the deciding poll was started, not necessarily answered,
\* before the timeout elapsed.
C19_TrueIffOkPollStartedBeforeTimeout ==
    /\ waitPc = "returned" =>
            (waitResult = "true" <=>
                \E i \in PollsWith("stopped_OK") :
                    polls[i].started < waitTimeout)
    /\ \A i \in 1..Len(polls) : polls[i].started < waitTimeout
    /\ WaitDecidedByPolls

\* C19 witness: true was returned after a poll that raised, by a poll
\* started before the timeout and answered after it
C19_Witness ==
    /\ WaitReturnedWith("true")
    /\ PollsWith("error") # {}
    /\ polls[Len(polls)].started < waitTimeout
    /\ polls[Len(polls)].reported >= waitTimeout

(***************************************************************************)
(* wait_for_host_availability                                              *)
(***************************************************************************)
\* the cycle found the host available
CycleSucceeded(c) ==
    c.ping = "ok" /\ (use_ssh => c.ssh = "ok" /\ c.echo = "0")

\* C20: wait_for_host_availability returns true only if, in one polling
\* cycle started before max_wait_time elapsed, the ping succeeded and (when
\* use_ssh is set) an SSH connection was opened and `echo test` returned exit
\* code 0; a cycle with a failed ping never attempts SSH; if no cycle
\* succeeds before max_wait_time elapses the call returns false.
C20_AvailabilityResult ==
    /\ probeResult = "true" =>
            \E i \in 1..Len(cycles) :
                /\ cycles[i].started < max_wait_time
                /\ CycleSucceeded(cycles[i])
    /\ \A i \in 1..Len(cycles) :
            cycles[i].ping # "ok" =>
                cycles[i].ssh = "none" /\ cycles[i].echo = "none"
    /\ (/\ probePc = "returned"
        /\ \A i \in 1..Len(cycles) : ~CycleSucceeded(cycles[i]))
            => probeResult = "false"

(***************************************************************************)
(* Output of a failed apply                                                *)
(***************************************************************************)
\* stdout and stderr of the upgrade command, as execute_command returns them
\* to the adapter (package_managers.py:148-151)
ApplyCommandOutput == "stdout+stderr"

\* the upgrade command of apply_updates ran and failed
ApplyCommandFailed ==
    \E i \in Idx("apply_updates", "fail") :
        calls[i - 1] = Ev("refresh_cache", "ok")

\* C21: when apply_updates fails, the combined stdout and stderr of the
\* failed apply command is attached to the report the pass returns as
\* update_report.command_output, also when the result is REVERTED or
\* REVERT_FAILED.
C21_CommandOutputPreserved ==
    (Returned /\ Len(reports) = 1 /\ ApplyCommandFailed) =>
        reports[1].update_report.command_output = ApplyCommandOutput

(***************************************************************************)
(* Release of the remote shells                                            *)
(***************************************************************************)
\* C23: when a host pass returns, with any result and also when an exception
\* was raised inside it, every SSH connection opened during the pass (the
\* main shell, the reboot shell, every availability-probe shell) has been
\* disconnected.
C23_AllShellsClosed == Returned => openShells = {}

\* C23 witness: the pass returned through its exception handler after it had
\* used the main shell, the reboot shell and a probe shell
C23_Witness ==
    /\ Returned
    /\ Idx("connect", "ok") # {}
    /\ Idx("reboot_host_via_ssh", "ok") # {}
    /\ Idx("wait_for_host_availability", "raise") # {}
    /\ Len(reports) = 1

(***************************************************************************)
(* Hosts without a VM mapping                                              *)
(***************************************************************************)
\* the host has no entry in the VM mapping and is not opted out
Unmapped == host \notin config.mappings /\ host \notin config.opt_out_hosts

\* C26: a host without a VM mapping entry that is not opted out is still
\* processed: when it has updates and apply is enabled, apply_updates is
\* invoked, no snapshot, rollback or snapshot cleanup is asked of the
\* hypervisor, and its result is never FAILED_SNAPSHOT, REVERTED or
\* REVERT_FAILED.
C26_UnmappedStillProcessed ==
    Unmapped =>
        /\ IdxOp("_create_snapshot") = {}
        /\ IdxOp("_revert_snapshot") = {}
        /\ IdxOp("_cleanup_old_snapshots") = {}
        /\ ~ticket /\ hvTask.kind = "none" /\ ~hvCreated
        /\ ~ReturnedWith("FAILED_SNAPSHOT")
        /\ ~ReturnedWith("REVERTED")
        /\ ~ReturnedWith("REVERT_FAILED")
        /\ (/\ updates # <<>>
            /\ config.apply_updates
            /\ pc # "decide")
                => pc = "apply_updates" \/ Idx("apply_updates", "call") # {}

\* C26 witness: an unmapped host, with the hypervisor configured, got its
\* updates applied and the pass ended with SUCCESS
C26_Witness ==
    /\ Unmapped
    /\ config.proxmox
    /\ Idx("apply_updates", "ok") # {}
    /\ ReturnedWith("SUCCESS")

(***************************************************************************)
(* Order of the groups in the e-mail                                       *)
(***************************************************************************)
\* the place of a group in the order of severity: REVERT_FAILED, REVERTED,
\* the other failures, OPT_OUT, SUCCESS, NO_UPDATES
SeverityRank(g) ==
    CASE g = "critical_hosts" -> 1
      [] g = "reverted_hosts" -> 2
      [] g = "failed_hosts" -> 3
      [] g = "opt_out_hosts" -> 4
      [] g = "successful_hosts" -> 5
      [] OTHER -> 6

\* the sections of a body come in the order of severity
InSeverityOrder(body) ==
    \A i, j \in 1..Len(body) :
        i < j => SeverityRank(body[i].group) < SeverityRank(body[j].group)

\* the bodies that were rendered
Rendered == IF fnResult = None THEN {} ELSE fnResult

\* C22: every rendering of the automated update report, the HTML body and
\* the plain-text body, lists the groups of hosts in the same order of
\* severity: REVERT_FAILED, REVERTED, the other failures, OPT_OUT, SUCCESS,
\* NO_UPDATES.
C22_GroupsInSeverityOrder ==
    \A b \in Rendered : InSeverityOrder(b.html) /\ InSeverityOrder(b.text)

(***************************************************************************)
(* Per-VM endpoint                                                         *)
(***************************************************************************)
\* the value used when the mapping may override the global one
Overridden(own, global) == IF own = None THEN {global} ELSE own

\* C25: when a VM mapping has its own endpoint, username or password, the
\* hypervisor operations of that host's pass (snapshot create, rollback,
\* list, delete, task polling) are sent to that endpoint with those
\* credentials instead of the global ones.
C25_PerVMEndpointUsed ==
    fnResult # None =>
        \A r \in fnResult :
            /\ r.endpoint \in Overridden(fnArgs.vm_mapping.endpoint,
                                         proxmox_config.endpoint)
            /\ r.username \in Overridden(fnArgs.vm_mapping.username,
                                         proxmox_config.username)
            /\ r.password \in Overridden(fnArgs.vm_mapping.password,
                                         proxmox_config.password)

(***************************************************************************)
(* execute_command needs a live connection                                 *)
(***************************************************************************)
\* the connect and disconnect calls made before call i
LifecycleBefore(i) ==
    {j \in 1..(i - 1) : sshLog[j].op \in {"connect", "disconnect"}}

\* call i comes before any successful connect, after a failed connect or
\* after a disconnect, going by the calls made and what they returned
NotConnectedAt(i) ==
    \/ LifecycleBefore(i) = {}
    \/ LET j == CHOOSE k \in LifecycleBefore(i) :
                    \A l \in LifecycleBefore(i) : l <= k
       IN  \/ sshLog[j].op = "disconnect"
           \/ sshLog[j].outcome # "True"

\* C24: execute_command raises whenever it is called before a successful
\* connect, after a failed connect or after disconnect, and sends no command
\* then; every disconnect, however many are made, leaves the connection
\* without a client and not connected.
C24_ExecuteNeedsConnection ==
    \A i \in 1..Len(sshLog) :
        /\ (sshLog[i].op = "execute_command" /\ NotConnectedAt(i))
               => sshLog[i].outcome = "RuntimeError"
        /\ sshLog[i].op = "disconnect"
               => sshLog[i].client = None /\ ~sshLog[i].connected

\* a command refused before connect, after a failed connect and after two
\* disconnects in a row
C24_Witness ==
    /\ Len(sshLog) = MaxSshOps
    /\ sshLog[1].op = "connect" /\ sshLog[1].outcome = "False"
    /\ sshLog[2].op = "execute_command"
    /\ sshLog[2].outcome = "RuntimeError"
    /\ sshLog[3].op = "disconnect"
    /\ sshLog[4].op = "disconnect"

(***************************************************************************)
(* The registry of VM mappings                                             *)
(***************************************************************************)
\* an entry as the file format wants it: a table with a non-empty node and
\* an integer vmid > 0
ValidEntry(vm_info) ==
    /\ vm_info.is_table
    /\ vm_info.node.type = "str" /\ vm_info.node.chars # <<>>
    /\ vm_info.vmid.type = "int" /\ vm_info.vmid.int > 0

\* every mapping of the registry has a non-empty node, a vmid > 0 and, when
\* it has one, a max_snapshots >= 0
WellFormedRegistry(mappings) ==
    \A h \in DOMAIN mappings :
        /\ mappings[h].node.type = "str" /\ mappings[h].node.chars # <<>>
        /\ mappings[h].vmid > 0
        /\ \A n \in mappings[h].max_snapshots : n >= 0

\* C27: loading the VM mapping file skips every invalid entry and keeps the
\* valid ones: every mapping of the registry has a non-empty node and an
\* integer vmid > 0, every kept max_snapshots is >= 0, and an invalid entry
\* (not a table, no node, vmid zero, negative or not a number) never aborts
\* the load or the process.
C27_InvalidEntriesSkipped ==
    \A r \in fnResult :
        /\ ~r.exit
        /\ WellFormedRegistry(r.mappings)
        /\ \A h \in DOMAIN fnArgs :
               ValidEntry(fnArgs[h]) => h \in DOMAIN r.mappings

(***************************************************************************)
(* The version the OS probe reports                                        *)
(***************************************************************************)
\* the first of os-release VERSION_ID, os-release VERSION, lsb Release and
\* uname kernel release that is there
VersionByPrecedence(uname_info, os_release_info, lsb_info) ==
    CASE os_release_info.VERSION_ID # None -> os_release_info.VERSION_ID
      [] os_release_info.VERSION # None -> os_release_info.VERSION
      [] lsb_info.Release # None -> lsb_info.Release
      [] OTHER -> uname_info.kernel_release

\* C28: the version is the first there is of os-release VERSION_ID,
\* os-release VERSION, lsb Release and uname kernel release, whichever
\* signal gave the distribution: with an os-release ID, no VERSION_ID or
\* VERSION and an lsb Release, the version is the lsb Release.
C28_VersionPrecedence ==
    \A r \in fnResult :
        \A v \in VersionByPrecedence(fnArgs.uname_info,
                                     fnArgs.os_release_info,
                                     fnArgs.lsb_info) :
            r.version = v

(***************************************************************************)
(* The package manager the OS probe selects                                *)
(***************************************************************************)
\* the kinds with a binary on the host
PresentKinds(executable) ==
    {PACKAGE_MANAGERS[i].name : i \in
        {k \in 1..Len(PACKAGE_MANAGERS) :
            \E c \in 1..Len(PACKAGE_MANAGERS[k].commands) :
                PACKAGE_MANAGERS[k].commands[c] \in executable}}

\* the kinds OS_PATTERNS gives the distribution
CanonicalKinds(distribution) ==
    {OS_PATTERNS[i].default_pm : i \in
        {k \in 1..Len(OS_PATTERNS) :
            Contains(OS_PATTERNS[k].pattern, distribution)}}

\* the place of a kind in PACKAGE_MANAGERS
KindRank(kind) ==
    CHOOSE i \in 1..Len(PACKAGE_MANAGERS) : PACKAGE_MANAGERS[i].name = kind

\* C29: the selected kind is the distribution's canonical kind when one of
\* its binaries is present; otherwise the first kind of the fixed known set
\* whose binary is present; otherwise "unknown"; it is never a kind whose
\* binaries are all absent.
C29_PackageManagerSelection ==
    \A kind \in fnResult :
        LET present == PresentKinds(fnArgs.executable)
            canonical == CanonicalKinds(fnArgs.distribution) \cap present
        IN  /\ canonical # {} => kind \in canonical
            /\ (canonical = {} /\ present # {}) =>
                   /\ kind \in present
                   /\ \A other \in present : KindRank(kind) <= KindRank(other)
            /\ present = {} => kind = "unknown"
            /\ kind # "unknown" => kind \in present

\* a distribution whose own kind is absent gets the first kind present
C29_Witness ==
    /\ fnArgs.distribution = "ubuntu"
    /\ fnArgs.executable = {"/bin/dnf", "/bin/yum"}
    /\ fnResult = Some("yum")

(***************************************************************************)
(* The security marker                                                     *)
(***************************************************************************)
\* the places of the flagged updates of a list
Flagged(updates_) == {i \in 1..Len(updates_) : updates_[i].security}

\* C30: for every list of updates and the same remote output, the marker
\* applied twice flags the same updates as applied once, and an application
\* never clears a flag or changes another field of an update.
C30_MarkerIdempotent ==
    \A k \in 2..Len(MarkedSoFar) :
        LET given == MarkedSoFar[k - 1]
            marked == MarkedSoFar[k]
        IN  /\ Len(marked) = Len(given)
            /\ Flagged(given) \subseteq Flagged(marked)
            /\ \A i \in 1..Len(given) :
                   [marked[i] EXCEPT !.security = given[i].security]
                       = given[i]
            /\ k > 2 => Flagged(marked) = Flagged(given)

\* applied twice to a list in which it flags one update and leaves one
C30_Witness ==
    /\ fnCalls = 2
    /\ Len(fnArgs.updates) = 2
    /\ Flagged(fnArgs.updates) = {}
    /\ Cardinality(Flagged(MarkedSoFar[2])) = 1

(***************************************************************************)
(* The package-list parsers                                                *)
(***************************************************************************)
\* a sequence without its i-th element
Without(s, i) == SubSeq(s, 1, i - 1) \o SubSeq(s, i + 1, Len(s))

ResultAfterCheck(updates_, is_opt_out_host, apply_updates_) ==
    CASE is_opt_out_host \/ ~apply_updates_ -> "OPT_OUT"
      [] updates_ = <<>> -> "NO_UPDATES"
      [] OTHER -> "continue"

\* C32: for yum and dnf exit code 100 means updates are present, 0 means
\* none, and any other exit code is an error: a host whose check-update
\* command exits with such a code is not reported as NO_UPDATES.
C32_OtherExitCodeIsError ==
    \A k \in 1..Len(CheckedSoFar) :
        (/\ fnArgs.kind \in {"yum", "dnf"}
         /\ ~fnArgs.command.raised
         /\ fnArgs.command.exit_code \notin {0, 100})
            => ResultAfterCheck(CheckedSoFar[k], FALSE, TRUE) # "NO_UPDATES"

(***************************************************************************)
(* The interval of the availability wait                                   *)
(***************************************************************************)
\* C33: during the availability wait after a reboot the cycles are spaced by
\* the ping_interval of the configuration: configurations that differ only
\* in ping_interval wait their own interval between cycles.
C33_PingIntervalUsed ==
    \A args \in fnResult :
        \A interval \in fnArgs.ping_interval :
            args.check_interval = interval

(***************************************************************************)
(* A snapshot that could not be created                                    *)
(***************************************************************************)
\* C34: with updates present, the hypervisor configured and the host
\* mapped, a failed snapshot creation (authentication failure, API error,
\* task exit status not OK or task wait timeout) ends the pass with
\* FAILED_SNAPSHOT and an empty snapshot_name, and apply_updates, the reboot
\* and the rollback are never invoked.
C34_FailedSnapshotEndsPass ==
    Idx("_create_snapshot", "fail") # {} =>
        /\ updates # <<>> /\ config.proxmox /\ vm_mapping # None
        /\ ReturnedWith("FAILED_SNAPSHOT")
        /\ reports[1].snapshot_name = None
        /\ snapshot_name = None
        /\ IdxOp("apply_updates") = {}
        /\ IdxOp("reboot_host_via_ssh") = {}
        /\ IdxOp("_revert_snapshot") = {}
        /\ ~RebootDispatched

\* FAILED_SNAPSHOT after the wait for the snapshot task timed out
C34_Witness ==
    /\ ReturnedWith("FAILED_SNAPSHOT")
    /\ Idx("_create_snapshot", "fail") # {}
    /\ hvTask = [kind |-> "snapshot", status |-> "running"]

(***************************************************************************)
(* The result of the reboot dispatch                                       *)
(***************************************************************************)
\* C35: reboot_host_via_ssh returns true exactly when the SSH connection
\* for the reboot was established; the exit code, the timeout or the drop
\* of the connection under `shutdown -r now || reboot` never make it false,
\* so FAILED_REBOOT, or the rollback for it, comes from a failed connect
\* only.
C35_RebootTrueIffConnected ==
    \A r \in fnResult :
        /\ r.returned <=> fnArgs.connect = "connected"
        /\ r.sent <=> fnArgs.connect = "connected"
        /\ r.result \in {"FAILED_REBOOT", "REVERTED", "REVERT_FAILED"}
               => fnArgs.connect # "connected"

\* the connection dropped under the command and the step goes on
C35_Witness ==
    /\ fnArgs.connect = "connected"
    /\ fnArgs.command = "dropped"
    /\ \E r \in fnResult : r.returned /\ r.result = "wait"

(***************************************************************************)
(* When the retention sweep runs                                           *)
(***************************************************************************)
\* C36: the retention sweep (list_snapshots and delete_snapshot) runs only
\* in passes that end with SUCCESS, created a snapshot and have
\* cleanup_snapshots enabled; it never runs after a rollback or a failure,
\* and an error of listing or deleting in the sweep does not change the
\* result from SUCCESS.
C36_SweepOnlyOnSuccess ==
    IdxOp("_cleanup_old_snapshots") # {} =>
        /\ config.cleanup_snapshots
        /\ config.proxmox
        /\ Idx("_create_snapshot", "ok") # {}
        /\ snapshot_name # None
        /\ Idx("apply_updates", "ok") # {}
        /\ IdxOp("_revert_snapshot") = {}
        /\ Idx("apply_updates", "fail") = {}
        /\ Idx("reboot_host_via_ssh", "fail") = {}
        /\ Idx("wait_for_host_availability", "fail") = {}
        /\ pc \in {"success", "done"}
        /\ Returned => ReturnedWith("SUCCESS")

\* SUCCESS after a sweep in which listing or deleting failed
C36_Witness ==
    /\ ReturnedWith("SUCCESS")
    /\ Idx("_cleanup_old_snapshots", "fail") # {}

\* every call of _api_request has returned or raised
RequestsEnded == \A t \in Threads : apiPc[t] \in {"unused", "returned", "raised"}

\* C37: every host pass returns a terminal report in the end, and so does
\* every call of _api_request, whatever the host and the hypervisor answer:
\* the refresh loop, wait_for_task, wait_for_host_availability and the
\* re-authentication after a 401 all come to an end
C37_EveryPassReturns ==
    <>(Returned /\ (PassIdle \/ Len(reports) = 1) /\ RequestsEnded)

\* a call of _api_request that only the depth of its nesting ended: every
\* request was answered 401 and every authentication 200
C37_Witness ==
    /\ apiPc["t1"] = "raised"
    /\ apiPc["t2"] = "unused"
    /\ apiFrom["t1"] = "401"
    /\ apiReauths["t1"] = MaxRecursion
    /\ clientTicket = issued
    /\ clientTicket # 0

(***************************************************************************)
(* Unsupported package managers, the check-only default, the report        *)
(***************************************************************************)
\* the OS probe yielded a kind that get_package_manager has no adapter for
UnsupportedKind ==
    os_info # None /\ ValueOf(os_info).package_manager \notin manager_map

\* C38: when the OS probe yields a package manager kind with no adapter
\* (apk, brew, pkg_add or unknown), the host pass ends with FAILED_UPDATES
\* and an "Unsupported package manager" error, and no refresh, list,
\* snapshot or apply operation was invoked on the host.
C38_UnsupportedKindEndsPass ==
    (UnsupportedKind /\ pc # "get_package_manager") =>
        /\ ReturnedWith("FAILED_UPDATES")
        /\ reports[1].update_report.error = "Unsupported package manager"
        /\ reports[1].error_details = <<"Unsupported package manager">>
        /\ reports[1].snapshot_name = None
        /\ \A op \in {"refresh_cache", "check_updates", "_create_snapshot",
                      "apply_updates"} : IdxOp(op) = {}

\* a pass on a host probed as apk returned
C38_Witness ==
    /\ Returned
    /\ os_info = Some([package_manager |-> "apk"])
    /\ Idx("detect_os", "ok") # {}

\* the configurations without a value for apply_updates
WithoutApplyUpdates == {None, Some([apply_updates |-> None])}

\* C39: with a configuration in which the updates section or its
\* apply_updates key is absent, no host pass invokes apply_updates, snapshot
\* creation, reboot or rollback, and every pass in which check_updates
\* returned ends in OPT_OUT with the listed updates, also when the list is
\* empty.
C39_CheckOnlyByDefault ==
    (\E t \in WithoutApplyUpdates :
        config.apply_updates = apply_updates_setting(t)) =>
        /\ \A op \in {"apply_updates", "_create_snapshot", "_revert_snapshot",
                      "reboot_host_via_ssh"} : IdxOp(op) = {}
        /\ ~RebootDispatched
        /\ snapshot_name = None
        /\ (Returned /\ Idx("check_updates", "ok") # {}) =>
                /\ ReturnedWith("OPT_OUT")
                /\ reports[1].update_report.updates = updates
                /\ reports[1].snapshot_name = None

\* a pass of a host outside the opt-out list listed no update and ended in
\* OPT_OUT
C39_Witness ==
    /\ ReturnedWith("OPT_OUT")
    /\ ~config.apply_updates
    /\ host \notin config.opt_out_hosts
    /\ Idx("check_updates", "ok") # {}
    /\ updates = <<>>

\* C40: whenever check_updates completed in a host pass, the update_report
\* of the terminal report carries the detected os_info and exactly the list
\* of updates check_updates returned, whatever the result.
C40_ReportCarriesUpdates ==
    (Returned /\ Idx("check_updates", "ok") # {} /\ Len(reports) = 1) =>
        /\ reports[1].update_report.os_info = os_info
        /\ reports[1].update_report.updates = updates

====
